---- MODULE Spec2Model ----
(***************************************************************************)
(* A model of polygrammar: the grammar IR (model.py), the recursive,       *)
(* backtracking parser (recursive_parser.py) and the rule-map optimizer    *)
(* (optimizer.py).                                                         *)
(*                                                                         *)
(* Characters are code points (integers), strings and rule names are       *)
(* sequences of code points, so that slicing, ordering of characters,      *)
(* lower/upper casing and tests on the first character of a name are       *)
(* computed and not assumed.                                               *)
(*                                                                         *)
(* A generator of the parser is modelled by its trace: the sequence of     *)
(* events it produces until it is exhausted, in execution order:           *)
(*   Y  a yielded State (offset, results),                                 *)
(*   V  an update of ParseJob._max_offset by _parse_expr,                  *)
(*   D  an entry appended to ParseJob._debug_stacks,                       *)
(*   X  an exception that leaves the generator (always the last event).    *)
(* A consumer that stops early (next(...)) sees a prefix of the trace.     *)
(***************************************************************************)
EXTENDS Integers, Sequences, FiniteSets, TLC

VARIABLES
    rule_map,     \* Parser._rule_map: ordered sequence of [name, expr]
    method_map,   \* Parser._method_map: rule name -> kind of bound visitor method
    text,         \* the input text
    pc,           \* "ready" before an operation, then the operation that ran
    out,          \* what the operation produced
    runtime_cache,  \* Runtime._runtime_cache: the [grammar, runtime] entries of the dict
    iters,        \* the generators Parser.parse has returned, each with its position
    jobs          \* the ParseJob objects those generators run on

vars == <<rule_map, method_map, text, pc, out, runtime_cache, iters, jobs>>

-----------------------------------------------------------------------------
(* Bounds of the model *)

\* longest input text drawn from the alphabet
MaxLen == 3

\* deepest chain of active _parse_* frames before the interpreter gives up
MaxDepth == 14

-----------------------------------------------------------------------------
(* Characters *)

\* ord() of the characters the grammars and texts below use
ord == [A |-> 65, B |-> 66, a |-> 97, b |-> 98, c |-> 99, bang |-> 33,
        underscore |-> 95, s |-> 115, x |-> 120, C |-> 67]

TextAlphabet == {ord.A, ord.B, ord.a}

\* str.lower() / str.upper() on one ASCII character
Lower(c) == IF c \in 65..90 THEN c + 32 ELSE c
Upper(c) == IF c \in 97..122 THEN c - 32 ELSE c

LowerStr(s) == [i \in 1..Len(s) |-> Lower(s[i])]

\* name[0].isupper()
IsUpper(c) == c \in 65..90

-----------------------------------------------------------------------------
(* The IR: model.py *)

NoMeta == {}

String(v) == [t |-> "String", value |-> v, meta |-> NoMeta]
Symbol(n) == [t |-> "Symbol", name |-> n, meta |-> NoMeta]
EndOfFile == [t |-> "EndOfFile", meta |-> NoMeta]
Char(c) == [t |-> "Char", char |-> c]
CharRange(a, z) == [t |-> "CharRange", start |-> a, end |-> z]
Charset(gs) == [t |-> "Charset", groups |-> gs, meta |-> NoMeta]
Alt(es) == [t |-> "Alt", exprs |-> es, meta |-> NoMeta]
Cat(es) == [t |-> "Cat", exprs |-> es, meta |-> NoMeta]
Diff(b, d) == [t |-> "Diff", base |-> b, diff |-> d, meta |-> NoMeta]

\* max = -1 stands for None (unbounded)
None == -1

RepeatCls(min, max) ==
    IF min = 0 /\ max = None THEN "ZeroOrMore"
    ELSE IF min = 0 /\ max = 1 THEN "Optional"
    ELSE IF min = 1 /\ max = None THEN "OneOrMore"
    ELSE "Repeat"

Repeat(e, min, max) ==
    [t |-> "Repeat", cls |-> "Repeat", expr |-> e, min |-> min, max |-> max, meta |-> NoMeta]

WithMeta(e, m) == [e EXCEPT !.meta = @ \cup m]

RECURSIVE FlattenInto(_, _, _)
\* the "expand nested" loop of Alt.create / Cat.create
FlattenInto(kind, es, i) ==
    IF i > Len(es) THEN <<>>
    ELSE (IF es[i].t = kind THEN es[i].exprs ELSE <<es[i]>>) \o FlattenInto(kind, es, i + 1)

AltCreate(es) ==
    LET es2 == FlattenInto("Alt", es, 1)
    IN  IF Len(es2) = 1 THEN es2[1] ELSE Alt(es2)

CatCreate(es) ==
    LET es2 == FlattenInto("Cat", es, 1)
    IN  IF Len(es2) = 1 THEN es2[1] ELSE Cat(es2)

RepeatCreate(e, min, max) ==
    [t |-> "Repeat", cls |-> RepeatCls(min, max), expr |-> CatCreate(<<e>>),
     min |-> min, max |-> max, meta |-> NoMeta]

Rule(n, e) == [name |-> n, expr |-> e]

\* rule_map[name]
Lookup(rm, n) == LET i == CHOOSE i \in 1..Len(rm) : rm[i].name = n IN rm[i].expr

RuleNames(rm) == {rm[i].name : i \in 1..Len(rm)}

-----------------------------------------------------------------------------
(* Values collected in State.results *)

\* every value is a record with the same fields: k its kind, s its characters (a
\* str) or the rule name it was built for, v its arguments
\* a str: a matched literal or character, or a joined token
StrVal(s) == [k |-> "str", s |-> s, v |-> <<>>]
\* Visitor.visit(name, *args) == (name,) + args
NodeVal(n, args) == [k |-> "node", s |-> n, v |-> args]
\* what an application visitor method visit_<n> returned for args (opaque)
VisitVal(n, args) == [k |-> "visit", s |-> n, v |-> args]

\* the kinds of bound visitor methods the model draws:
\*   "opaque"  def visit_n(self, *args): returns an application value
\*   "ident"   def visit_n(self, x): return x
MethodKinds == {"opaque", "ident"}

\* the method applied to args; ok = FALSE when the call raises TypeError (wrong arity)
CallMethod(kind, n, args) ==
    IF kind = "ident"
    THEN IF Len(args) = 1 THEN [ok |-> TRUE, val |-> args[1]]
         ELSE [ok |-> FALSE, val |-> StrVal(<<>>)]
    ELSE [ok |-> TRUE, val |-> VisitVal(n, args)]

RECURSIVE Join(_, _, _)
\* "".join(args[lo..hi]) for args that are all str
Join(args, lo, hi) ==
    IF lo > hi THEN <<>>
    ELSE IF lo = hi THEN args[lo].s
    ELSE LET mid == (lo + hi) \div 2
         IN  Join(args, lo, mid) \o Join(args, mid + 1, hi)

AllStr(args) == \A i \in 1..Len(args) : args[i].k = "str"

-----------------------------------------------------------------------------
(* State and generator traces: recursive_parser.py *)

State(o, r) == [offset |-> o, results |-> r]

EvY(st) == [k |-> "Y", st |-> st]
EvV(o) == [k |-> "V", offset |-> o]
EvD(msg, stack) == [k |-> "D", msg |-> msg, stack |-> stack]
EvX(err) == [k |-> "X", err |-> err]

Aborted(tr) == tr # <<>> /\ tr[Len(tr)].k = "X"

IsYield(ev) == ev.k = "Y"
IsDebug(ev) == ev.k = "D"

\* the states a generator yields, in order
Yields(tr) ==
    LET ys == SelectSeq(tr, IsYield)
    IN  [i \in 1..Len(ys) |-> ys[i].st]

\* left, then right unless left ended in an exception
AndThen(left, right) ==
    IF Aborted(left) THEN left ELSE left \o right

RECURSIVE Chain(_, _, _)
\* the traces parts[lo], ..., parts[hi] one after the other; an exception ends the
\* chain, so the parts after it are never run
Chain(parts, lo, hi) ==
    CASE lo = hi -> parts[lo]
      [] lo + 1 = hi -> AndThen(parts[lo], parts[hi])
      [] lo > hi -> <<>>
      [] OTHER -> AndThen(Chain(parts, lo, (lo + hi) \div 2),
                          Chain(parts, (lo + hi) \div 2 + 1, hi))

\* index of the first yield of a trace, 0 when it yields nothing
FirstYield(tr) ==
    LET idx == {i \in 1..Len(tr) : tr[i].k = "Y"}
    IN  IF idx = {} THEN 0 ELSE CHOOSE i \in idx : \A k \in idx : i <= k

\* text[start:end]
Slice(txt, start, end) ==
    SubSeq(txt, start + 1, IF end < Len(txt) THEN end ELSE Len(txt))

-----------------------------------------------------------------------------
(* ParseJob: recursive_parser.py *)

\* a job: the parser's maps, the text, and _debug_offset (-1: disarmed)
Job(rm, mm, txt, dbg) == [rm |-> rm, mm |-> mm, text |-> txt, dbg |-> dbg]

\* the keyword arguments is_ignored / is_token handed down by **kwargs
NoKw == [ign |-> FALSE, tok |-> FALSE]

\* one (name, offset) entry of the context path _debug collects
Frame(fn, st) == <<fn, st.offset>>

\* self._debug(msg) when state.offset == self._debug_offset
Debug(j, st, msg, frames) ==
    IF st.offset = j.dbg THEN <<EvD(msg, frames)>> ELSE <<>>

RECURSIVE ParseExpr(_, _, _, _, _)
RECURSIVE ParseSymbol(_, _, _, _, _)
RECURSIVE ParseAlt(_, _, _, _, _)
RECURSIVE ParseCat(_, _, _, _, _)
RECURSIVE ParseRepeat(_, _, _, _, _, _, _)
RECURSIVE ParseDiff(_, _, _, _, _, _)

\* a _parse_string that yields the matched value alone, without the caller's results
ParseStringFreshResults(j, st, value, kw, stk) ==
    LET frames == Append(stk, Frame("string", st))
        start == st.offset
        end == start + Len(value)
        got == Slice(j.text, start, end)
    IN  IF got # value
        THEN Debug(j, st, [kind |-> "string", got |-> got, want |-> value], frames)
        ELSE <<EvY(State(end, IF kw.ign THEN <<>> ELSE <<StrVal(value)>>))>>

ParseString(j, st, value, kw, stk) ==
    LET frames == Append(stk, Frame("string", st))
        start == st.offset
        end == start + Len(value)
        got == Slice(j.text, start, end)
    IN  IF got # value
        THEN Debug(j, st, [kind |-> "string", got |-> got, want |-> value], frames)
        ELSE <<EvY(State(end, IF kw.ign THEN st.results
                              ELSE Append(st.results, StrVal(value))))>>

\* the loop over groups of _parse_charset
GroupMatch(groups, ch) ==
    \E i \in 1..Len(groups) :
        IF groups[i].t = "Char" THEN ch = groups[i].char
        ELSE groups[i].start <= ch /\ ch <= groups[i].end

ParseCharset(j, st, groups, kw, stk) ==
    LET frames == Append(stk, Frame("charset", st))
    IN  IF st.offset >= Len(j.text)
        THEN Debug(j, st, [kind |-> "charset_eof"], frames)
        ELSE LET ch == j.text[st.offset + 1]
             IN  IF ~GroupMatch(groups, ch)
                 THEN Debug(j, st, [kind |-> "charset", got |-> ch, want |-> groups], frames)
                 ELSE <<EvY(State(st.offset + 1, IF kw.ign THEN st.results
                                                 ELSE Append(st.results, StrVal(<<ch>>))))>>

\* a _parse_symbol that never hands a token to its visitor method
SymbolResultBareToken(j, name, tok, args) ==
    IF tok
    THEN IF ~AllStr(args) THEN [ok |-> FALSE, val |-> StrVal(<<>>)]
         ELSE [ok |-> TRUE, val |-> StrVal(Join(args, 1, Len(args)))]
    ELSE IF name \in DOMAIN j.mm
         THEN CallMethod(j.mm[name], name, args)
         ELSE [ok |-> TRUE, val |-> NodeVal(name, args)]

\* the value _parse_symbol appends for one solution of the rule body
SymbolResult(j, name, tok, args) ==
    IF tok
    THEN IF ~AllStr(args) THEN [ok |-> FALSE, val |-> StrVal(<<>>)]
         ELSE LET joined == StrVal(Join(args, 1, Len(args)))
              IN  IF name \in DOMAIN j.mm
                  THEN CallMethod(j.mm[name], name, <<joined>>)
                  ELSE [ok |-> TRUE, val |-> joined]
    ELSE IF name \in DOMAIN j.mm
         THEN CallMethod(j.mm[name], name, args)
         ELSE [ok |-> TRUE, val |-> NodeVal(name, args)]

\* for st in self._parse_expr(evolve(state, results=[]), expr, is_token=is_token)
SymbolLoop(j, tr, name, tok, results) ==
    Chain([i \in 1..Len(tr) |->
              IF tr[i].k # "Y" THEN <<tr[i]>>
              ELSE LET r == SymbolResult(j, name, tok, tr[i].st.results)
                   IN  IF ~r.ok THEN <<EvX("TypeError")>>
                       ELSE <<EvY(State(tr[i].st.offset, Append(results, r.val)))>>],
          1, Len(tr))

\* a _parse_symbol that runs the rule body on the caller's result list
ParseSymbolSharedResults(j, st, name, kw, stk) ==
    CASE kw.ign \/ name[1] = ord.underscore ->
            ParseExpr(j, st, Lookup(j.rm, name), [ign |-> TRUE, tok |-> FALSE],
                      Append(stk, Frame("symbol", st)))
      [] OTHER ->
            SymbolLoop(j, ParseExpr(j, st, Lookup(j.rm, name),
                                    [ign |-> FALSE, tok |-> kw.tok \/ IsUpper(name[1])],
                                    Append(stk, Frame("symbol", st))),
                       name, kw.tok \/ IsUpper(name[1]), st.results)

\* a _parse_symbol that yields nothing when a rule is re-entered at an offset
\* where a rule is still running
ParseSymbolDetectsLoop(j, st, name, kw, stk) ==
    CASE \E i \in 1..Len(stk) : stk[i] = Frame("symbol", st) -> <<>>
      [] kw.ign \/ name[1] = ord.underscore ->
            ParseExpr(j, st, Lookup(j.rm, name), [ign |-> TRUE, tok |-> FALSE],
                      Append(stk, Frame("symbol", st)))
      [] OTHER ->
            SymbolLoop(j, ParseExpr(j, State(st.offset, <<>>), Lookup(j.rm, name),
                                    [ign |-> FALSE, tok |-> kw.tok \/ IsUpper(name[1])],
                                    Append(stk, Frame("symbol", st))),
                       name, kw.tok \/ IsUpper(name[1]), st.results)

ParseSymbol(j, st, name, kw, stk) ==
    CASE kw.ign \/ name[1] = ord.underscore ->
            ParseExpr(j, st, Lookup(j.rm, name), [ign |-> TRUE, tok |-> FALSE],
                      Append(stk, Frame("symbol", st)))
      [] OTHER ->
            SymbolLoop(j, ParseExpr(j, State(st.offset, <<>>), Lookup(j.rm, name),
                                    [ign |-> FALSE, tok |-> kw.tok \/ IsUpper(name[1])],
                                    Append(stk, Frame("symbol", st))),
                       name, kw.tok \/ IsUpper(name[1]), st.results)

\* an alternation that tries its children last to first
ParseAltReversed(j, st, exprs, kw, stk) ==
    Chain([i \in 1..Len(exprs) |->
              ParseExpr(j, st, exprs[Len(exprs) + 1 - i], kw, Append(stk, Frame("alt", st)))],
          1, Len(exprs))

\* for e in exprs: yield from self._parse_expr(state, e, **kwargs)
ParseAlt(j, st, exprs, kw, stk) ==
    Chain([i \in 1..Len(exprs) |->
              ParseExpr(j, st, exprs[i], kw, Append(stk, Frame("alt", st)))],
          1, Len(exprs))

\* for st in self._parse_expr(state, expr): yield from self._parse_cat(st, exprs)
CatLoop(j, tr, rest, kw, frames) ==
    Chain([i \in 1..Len(tr) |->
              IF tr[i].k = "Y" THEN ParseCat(j, tr[i].st, rest, kw, frames)
              ELSE <<tr[i]>>],
          1, Len(tr))

ParseCat(j, st, exprs, kw, stk) ==
    CASE exprs = <<>> -> <<EvY(st)>>
      [] OTHER -> CatLoop(j, ParseExpr(j, st, Head(exprs), kw, Append(stk, Frame("cat", st))),
                          Tail(exprs), kw, Append(stk, Frame("cat", st)))

\* a dec() that counts below zero
DecBelowZero(x) == IF x = None THEN None ELSE x - 1

\* dec() of _parse_repeat
Dec(x) == IF x = None THEN None ELSE IF x = 0 THEN 0 ELSE x - 1

\* for st in self._parse_expr(state, expr):
\*     yield from self._parse_repeat(st, expr, dec(min), dec(max))
RepeatLoop(j, tr, e, min, max, kw, frames) ==
    Chain([i \in 1..Len(tr) |->
              IF tr[i].k = "Y" THEN ParseRepeat(j, tr[i].st, e, min, max, kw, frames)
              ELSE <<tr[i]>>],
          1, Len(tr))

\* a _parse_repeat whose next repetition starts from the state it was called with
ParseRepeatFromSameState(j, st, e, min, max, kw, stk) ==
    AndThen(IF max = None \/ max > 0
            THEN RepeatLoop(j, [i \in 1..Len(ParseExpr(j, st, e, kw,
                                                        Append(stk, Frame("repeat", st)))) |->
                                   LET ev == ParseExpr(j, st, e, kw,
                                                       Append(stk, Frame("repeat", st)))[i]
                                   IN  IF ev.k = "Y" THEN EvY(st) ELSE ev],
                            e, Dec(min), Dec(max), kw, Append(stk, Frame("repeat", st)))
            ELSE <<>>,
            IF min = 0 THEN <<EvY(st)>> ELSE <<>>)

\* the loop when max is None or max > 0, then "if min == 0: yield state"
ParseRepeat(j, st, e, min, max, kw, stk) ==
    AndThen(IF max = None \/ max > 0
            THEN RepeatLoop(j, ParseExpr(j, st, e, kw, Append(stk, Frame("repeat", st))),
                            e, Dec(min), Dec(max), kw, Append(stk, Frame("repeat", st)))
            ELSE <<>>,
            IF min = 0 THEN <<EvY(st)>> ELSE <<>>)

\* a _parse_diff that tries diff where the base solution ended
DiffTryAtEnd(j, st, found, diff, kw, frames) ==
    LET dtr == ParseExpr(j, found, diff, kw, frames)
        first == FirstYield(dtr)
    IN  IF first > 0
        THEN SubSeq(dtr, 1, first - 1)
             \o Debug(j, st, [kind |-> "diff", want |-> diff], frames)
        ELSE IF Aborted(dtr) THEN dtr
        ELSE Append(dtr, EvY(found))

\* try: next(self._parse_expr(state, diff)) ... except StopIteration: yield st
DiffTry(j, st, found, diff, kw, frames) ==
    LET dtr == ParseExpr(j, st, diff, kw, frames)
        first == FirstYield(dtr)
    IN  IF first > 0
        THEN SubSeq(dtr, 1, first - 1)
             \o Debug(j, st, [kind |-> "diff", want |-> diff], frames)
        ELSE IF Aborted(dtr) THEN dtr
        ELSE Append(dtr, EvY(found))

\* for st in self._parse_expr(state, base): ...
DiffLoop(j, tr, st, diff, kw, frames) ==
    Chain([i \in 1..Len(tr) |->
              IF tr[i].k # "Y" THEN <<tr[i]>>
              ELSE DiffTry(j, st, tr[i].st, diff, kw, frames)],
          1, Len(tr))

ParseDiff(j, st, base, diff, kw, stk) ==
    DiffLoop(j, ParseExpr(j, st, base, kw, Append(stk, Frame("diff", st))), st, diff, kw,
             Append(stk, Frame("diff", st)))

\* _parse_expr: the _max_offset update, then the match statement; a call that
\* would exceed the interpreter's frame limit raises RecursionError instead
ParseExpr(j, st, e, kw, stk) ==
    CASE Len(stk) >= MaxDepth -> <<EvX("RecursionError")>>
      [] e.t = "Alt" -> <<EvV(st.offset)>> \o ParseAlt(j, st, e.exprs, kw, stk)
      [] e.t = "Cat" -> <<EvV(st.offset)>> \o ParseCat(j, st, e.exprs, kw, stk)
      [] e.t = "String" -> <<EvV(st.offset)>> \o ParseString(j, st, e.value, kw, stk)
      [] e.t = "Symbol" -> <<EvV(st.offset)>> \o ParseSymbol(j, st, e.name, kw, stk)
      [] e.t = "Repeat" ->
            <<EvV(st.offset)>> \o ParseRepeat(j, st, e.expr, e.min, e.max, kw, stk)
      [] e.t = "Charset" -> <<EvV(st.offset)>> \o ParseCharset(j, st, e.groups, kw, stk)
      [] e.t = "Diff" -> <<EvV(st.offset)>> \o ParseDiff(j, st, e.base, e.diff, kw, stk)
      [] OTHER -> <<EvV(st.offset), EvX("NotImplementedError")>>

\* ParseJob.parse(start, offset): the trace of the job's generator
JobParse(j, start, offset) ==
    ParseSymbol(j, State(offset, <<>>), start, NoKw, <<>>)

\* the (results, offset) pairs a job yields
Solutions(tr) ==
    LET ys == Yields(tr)
    IN  [i \in 1..Len(ys) |-> <<ys[i].results, ys[i].offset>>]

\* ParseJob._max_offset once the events tr[1..n] have run (parse resets it to 0)
MaxV(tr, n) ==
    LET seen == {0} \cup {tr[i].offset : i \in {k \in 1..n : tr[k].k = "V"}}
    IN  CHOOSE m \in seen : \A o \in seen : o <= m

\* ParseJob._debug_stacks after the whole trace
DebugStacks(tr) == SelectSeq(tr, IsDebug)

\* ParseError(text, offset, msg): msg holds the leaf message and the context path
ParseError(offset, msg, context) == [offset |-> offset, msg |-> msg, context |-> context]

\* " " * n
Spaces(n) == [i \in 1..n |-> 32]

\* one line of the message after textwrap.dedent: the template indents the line
\* and the pointer four columns deeper than "At", and dedent empties a line that
\* holds only whitespace
Dedented(ln) == IF \A i \in 1..Len(ln) : ln[i] = 32 THEN <<>> ELSE Spaces(4) \o ln

\* ParseError.__str__: the numbers of the "At L:C (o)" header, the line and the
\* pointer line
ParseErrorStr(txt, offset) ==
    LET \* the iterations the for loop runs before "if i == self.offset: break"
        newlines == {i \in 0..(Len(txt) - 1) : i <= offset /\ txt[i + 1] = 10}
        line_start == IF newlines = {} THEN 0
                      ELSE 1 + CHOOSE i \in newlines : \A k \in newlines : k <= i
        line_number == 1 + Cardinality(newlines)
        found == {i \in offset..(Len(txt) - 1) : txt[i + 1] = 10}
        line_end == IF found = {} THEN Len(txt)
                    ELSE CHOOSE i \in found : \A k \in found : i <= k
        col == offset - line_start
    IN  [line_number |-> line_number, column |-> col + 1, offset |-> offset,
         line |-> Dedented(Slice(txt, line_start, line_end)),
         pointer |-> Dedented(Spaces(col) \o <<94>>)]

\* Parser.parse that returns when the job is exhausted, whatever it found
ParserParseSilent(rm, mm, txt, start, offset, debug) ==
    LET tr == JobParse(Job(rm, mm, txt, -1), start, offset)
    IN  [items |-> Solutions(tr),
         raised |-> IF Aborted(tr) THEN tr[Len(tr)].err ELSE "none",
         excs |-> <<>>]

\* Parser.parse(text, start, offset, debug), run until the generator is exhausted:
\* the items it yielded and the exception that ended it ("none": it returned)
ParserParse(rm, mm, txt, start, offset, debug) ==
    LET tr == JobParse(Job(rm, mm, txt, -1), start, offset)
        items == Solutions(tr)
    IN  IF Aborted(tr)
        THEN [items |-> items, raised |-> tr[Len(tr)].err, excs |-> <<>>]
        ELSE IF Len(items) > 0
        THEN [items |-> items, raised |-> "none", excs |-> <<>>]
        ELSE IF ~debug
        THEN [items |-> items, raised |-> "ParseError",
              excs |-> <<ParseError(offset, [kind |-> "no match"], <<>>)>>]
        ELSE LET dbg == MaxV(tr, Len(tr))
                 tr2 == JobParse(Job(rm, mm, txt, dbg), start, offset)
                 stacks == DebugStacks(tr2)
                 excs == [i \in 1..Len(stacks) |->
                              ParseError(dbg, stacks[i].msg, stacks[i].stack)]
             IN  IF Aborted(tr2)
                 THEN [items |-> items, raised |-> tr2[Len(tr2)].err, excs |-> <<>>]
                 ELSE IF excs = <<>>
                 \* ExceptionGroup("no match", []) raises ValueError
                 THEN [items |-> items, raised |-> "ValueError", excs |-> excs]
                 ELSE [items |-> items, raised |-> "ExceptionGroup", excs |-> excs]

\* Parser.first_parse: next(self.parse(text, start, offset, debug))
ParserFirstParse(rm, mm, txt, start, offset, debug) ==
    LET tr == JobParse(Job(rm, mm, txt, -1), start, offset)
        first == FirstYield(tr)
    IN  IF first > 0
        THEN [items |-> <<Solutions(tr)[1]>>, raised |-> "none", excs |-> <<>>]
        ELSE ParserParse(rm, mm, txt, start, offset, debug)

-----------------------------------------------------------------------------
(* Generators of Parser.parse, advanced one next() at a time *)

\* most generators alive in a run
MaxIters == 2

\* ParseJob(parser, text): the counters of a new job
FreshJob == [num_solutions |-> 0, max_offset |-> 0, debug_offset |-> -1, debug_stacks |-> <<>>]

\* a parse that runs on the job the parser used first
NewJobShared(js) ==
    IF js = <<>> THEN [index |-> 1, jobs |-> <<FreshJob>>] ELSE [index |-> 1, jobs |-> js]

\* job = ParseJob(self, text): every run of Parser.parse makes its own job
NewJob(js) == [index |-> Len(js) + 1, jobs |-> Append(js, FreshJob)]

\* the generator object parse(text, start, offset, debug) returns: its body has
\* not started
NewIterator(start, offset, debug) ==
    [start |-> start, offset |-> offset, debug |-> debug, status |-> "new", job |-> 0,
     pos |-> 0, items |-> <<>>, raised |-> "none", excs |-> <<>>]

\* where the generator stops next: its next yield or exception after pos, or
\* Len(tr) + 1 when it runs to its end
NextStop(tr, pos) ==
    LET stops == {i \in (pos + 1)..Len(tr) : tr[i].k \in {"Y", "X"}}
    IN  IF stops = {} THEN Len(tr) + 1 ELSE CHOOSE i \in stops : \A k \in stops : i <= k

\* self._max_offset after the events tr[lo..hi]
MaxOffsetAfter(m, tr, lo, hi) ==
    LET seen == {m} \cup {tr[i].offset : i \in {k \in lo..hi : tr[k].k = "V"}}
    IN  CHOOSE x \in seen : \A o \in seen : o <= x

\* Parser.parse after "yield from job.parse(start, offset)" has ended
Finish(rm, mm, txt, it, job) ==
    IF job.num_solutions > 0
    THEN [it |-> [it EXCEPT !.status = "done"], job |-> job]
    ELSE IF ~it.debug
    THEN [it |-> [it EXCEPT !.status = "raised", !.raised = "ParseError",
                            !.excs = <<ParseError(it.offset, [kind |-> "no match"], <<>>)>>],
          job |-> job]
    ELSE LET dbg == job.max_offset
             tr2 == JobParse(Job(rm, mm, txt, dbg), it.start, it.offset)
             job2 == [num_solutions |-> Len(Yields(tr2)),
                      max_offset |-> MaxOffsetAfter(0, tr2, 1, Len(tr2)),
                      debug_offset |-> dbg,
                      debug_stacks |-> job.debug_stacks \o DebugStacks(tr2)]
             excs == [i \in 1..Len(job2.debug_stacks) |->
                          ParseError(dbg, job2.debug_stacks[i].msg,
                                     job2.debug_stacks[i].stack)]
         IN  IF Aborted(tr2)
             THEN [it |-> [it EXCEPT !.status = "raised", !.raised = tr2[Len(tr2)].err],
                   job |-> job2]
             ELSE [it |-> [it EXCEPT !.status = "raised",
                                     !.raised = IF excs = <<>> THEN "ValueError"
                                                ELSE "ExceptionGroup",
                                     !.excs = excs],
                   job |-> job2]

\* next(it) for a generator of Parser.parse that runs on job: the generator
\* and the job after the call. ParseJob.parse resets the counters when its
\* body starts, counts a solution at every yield, and _parse_expr raises
\* _max_offset on the way.
Resume(rm, mm, txt, it, job) ==
    LET tr == JobParse(Job(rm, mm, txt, -1), it.start, it.offset)
        job0 == IF it.status = "new"
                THEN [job EXCEPT !.num_solutions = 0, !.max_offset = 0]
                ELSE job
        stop == NextStop(tr, it.pos)
        last == IF stop > Len(tr) THEN Len(tr) ELSE stop
        job1 == [job0 EXCEPT !.max_offset = MaxOffsetAfter(@, tr, it.pos + 1, last)]
    IN  IF stop > Len(tr) THEN Finish(rm, mm, txt, [it EXCEPT !.pos = last], job1)
        ELSE IF tr[stop].k = "X"
        THEN [it |-> [it EXCEPT !.pos = stop, !.status = "raised", !.raised = tr[stop].err],
              job |-> job1]
        ELSE [it |-> [it EXCEPT !.pos = stop, !.status = "running",
                                !.items = Append(@, <<tr[stop].st.results,
                                                      tr[stop].st.offset>>)],
              job |-> [job1 EXCEPT !.num_solutions = @ + 1]]

-----------------------------------------------------------------------------
(* Parser construction: recursive_parser.py, Parser.__attrs_post_init__ *)

RECURSIVE Symbols(_)
\* symbols(expr): the names of the Symbol nodes of an expression
Symbols(e) ==
    CASE e.t = "Symbol" -> {e.name}
      [] e.t \in {"Alt", "Cat"} -> UNION {Symbols(e.exprs[i]) : i \in 1..Len(e.exprs)}
      [] e.t = "Repeat" -> Symbols(e.expr)
      [] e.t = "Diff" -> Symbols(e.base) \cup Symbols(e.diff)
      [] OTHER -> {}

\* Parser(grammar, visitor): rules is grammar.rules, vis maps the names n for which
\* the visitor has an attribute visit_<n> to the kind of that method
ParserInit(rules, vis) ==
    LET names == {rules[i].name : i \in 1..Len(rules)}
        duplicate == \E i, k \in 1..Len(rules) : i < k /\ rules[i].name = rules[k].name
        seen == UNION {Symbols(rules[i].expr) : i \in 1..Len(rules)}
    IN  IF duplicate THEN [ok |-> FALSE, err |-> "Duplicate rule name"]
        ELSE IF seen \ names # {} THEN [ok |-> FALSE, err |-> "Undefined rule(s)"]
        ELSE [ok |-> TRUE, err |-> "none", rule_map |-> rules,
              method_map |-> [n \in names \cap DOMAIN vis |-> vis[n]]]

-----------------------------------------------------------------------------
(* The optimizer: optimizer.py *)

\* to_range(group): the half-open range [a, z) of a Char or CharRange
ToRange(g) ==
    IF g.t = "Char" THEN <<g.char, g.char + 1>> ELSE <<g.start, g.end + 1>>

\* tuple comparison r1 <= r2 of sorted()
RangeLeq(r1, r2) == r1[1] < r2[1] \/ (r1[1] = r2[1] /\ r1[2] <= r2[2])

RECURSIVE SortRanges(_)
\* sorted(to_range(g) for g in groups)
SortRanges(rs) ==
    IF Len(rs) <= 1 THEN rs
    ELSE LET rest == SortRanges(Tail(rs))
             r == Head(rs)
             k == Cardinality({i \in 1..Len(rest) : ~RangeLeq(r, rest[i])})
         IN  SubSeq(rest, 1, k) \o <<r>> \o SubSeq(rest, k + 1, Len(rest))

\* base_ranges[i : i + 1] = new
Splice(rs, i, new) == SubSeq(rs, 1, i - 1) \o new \o SubSeq(rs, i + 1, Len(rs))

RECURSIVE SubtractLoop(_, _, _, _)
\* the while loop of subtract_groups; i and j are the 0-based indices of the code
SubtractLoop(base, diff, i, j) ==
    IF ~(i < Len(base) /\ j < Len(diff)) THEN base
    ELSE LET a1 == base[i + 1][1]
             z1 == base[i + 1][2]
             a2 == diff[j + 1][1]
             z2 == diff[j + 1][2]
         IN  IF z1 <= a2 THEN SubtractLoop(base, diff, i + 1, j)
             ELSE IF z2 <= a1 THEN SubtractLoop(base, diff, i, j + 1)
             ELSE IF a1 < a2 /\ z1 <= z2
             THEN SubtractLoop(Splice(base, i + 1, <<<<a1, a2>>>>), diff, i + 1, j)
             ELSE IF a2 <= a1 /\ z2 < z1
             THEN SubtractLoop(Splice(base, i + 1, <<<<z2, z1>>>>), diff, i, j + 1)
             ELSE IF a1 < a2 /\ z2 < z1
             THEN SubtractLoop(Splice(base, i + 1, <<<<a1, a2>>, <<z2, z1>>>>), diff, i + 1, j)
             ELSE SubtractLoop(Splice(base, i + 1, <<>>), diff, i, j)

\* subtract_groups(base, diff): the groups of base minus diff
SubtractGroups(base, diff) ==
    LET base_ranges == SortRanges([i \in 1..Len(base) |-> ToRange(base[i])])
        diff_ranges == SortRanges([i \in 1..Len(diff) |-> ToRange(diff[i])])
        left == SubtractLoop(base_ranges, diff_ranges, 0, 0)
    IN  [i \in 1..Len(left) |->
            IF left[i][1] + 1 = left[i][2] THEN Char(left[i][1])
            ELSE CharRange(left[i][1], left[i][2] - 1)]

\* rule_map[name] = expr on the dict optimize() works on
SetRule(rm, n, e) == [i \in 1..Len(rm) |-> IF rm[i].name = n THEN Rule(n, e) ELSE rm[i]]

\* what optimize_expr hands on: the rewritten expression, the dict and the sets
\* seen / visited it has updated, and whether it returned (ok) or raised (ValueError
\* of an empty Charset, KeyError of a name without a rule)
OptRes(e, s, ok) == [e |-> e, s |-> s, ok |-> ok]

RECURSIVE OptimizeExpr(_, _, _)
RECURSIVE OptimizeAll(_, _, _, _)

\* [optimize_expr(e) for e in exprs], left to right
OptimizeAll(exprs, i, s, wv) ==
    IF i > Len(exprs) THEN [es |-> <<>>, s |-> s, ok |-> TRUE]
    ELSE LET r == OptimizeExpr(exprs[i], s, wv)
         IN  IF ~r.ok THEN [es |-> <<>>, s |-> r.s, ok |-> FALSE]
             ELSE LET rest == OptimizeAll(exprs, i + 1, r.s, wv)
                  IN  [es |-> <<r.e>> \o rest.es, s |-> rest.s, ok |-> rest.ok]

RECURSIVE MergeCharsets(_, _, _)
\* the charset-merging loop of the Alt case: adjacent Charsets become one
MergeCharsets(es, i, acc) ==
    IF i > Len(es) THEN acc
    ELSE IF acc # <<>> /\ acc[Len(acc)].t = "Charset" /\ es[i].t = "Charset"
    THEN MergeCharsets(es, i + 1,
             [acc EXCEPT ![Len(acc)] = Charset(acc[Len(acc)].groups \o es[i].groups)])
    ELSE MergeCharsets(es, i + 1, Append(acc, es[i]))

OptimizeExpr(e, s, wv) ==
    CASE e.t = "String" ->
            OptRes(IF Len(e.value) = 1 THEN Charset(<<Char(e.value[1])>>) ELSE e, s, TRUE)
      [] e.t = "Symbol" ->
            \* rule_map[name] of a name the dict does not hold raises KeyError
            IF e.name \notin RuleNames(s.rm) THEN OptRes(e, s, FALSE)
            ELSE IF e.name \in wv THEN OptRes(Lookup(s.rm, e.name), s, TRUE)
            ELSE IF e.name \in s.seen /\ e.name \notin s.visited THEN OptRes(e, s, TRUE)
            ELSE LET s1 == [s EXCEPT !.seen = @ \cup {e.name}]
                 IN  IF e.name \in s1.visited THEN OptRes(Lookup(s1.rm, e.name), s1, TRUE)
                     ELSE LET r == OptimizeExpr(Lookup(s1.rm, e.name), s1, wv)
                          IN  IF ~r.ok THEN r
                              ELSE OptRes(r.e,
                                          [r.s EXCEPT !.rm = SetRule(@, e.name, r.e),
                                                      !.visited = @ \cup {e.name}],
                                          TRUE)
      [] e.t = "Alt" ->
            LET rs == OptimizeAll(e.exprs, 1, s, wv)
            IN  IF ~rs.ok THEN OptRes(e, rs.s, FALSE)
                ELSE OptRes(AltCreate(MergeCharsets(rs.es, 1, <<>>)), rs.s, TRUE)
      [] e.t = "Diff" ->
            LET b == OptimizeExpr(e.base, s, wv)
            IN  IF ~b.ok THEN b
                ELSE LET d == OptimizeExpr(e.diff, b.s, wv)
                     IN  IF ~d.ok THEN d
                         ELSE IF b.e.t = "Charset" /\ d.e.t = "Charset"
                         THEN LET gs == SubtractGroups(b.e.groups, d.e.groups)
                              \* Charset(groups) validates min_len(1)
                              IN  IF gs = <<>> THEN OptRes(e, d.s, FALSE)
                                  ELSE OptRes(Charset(gs), d.s, TRUE)
                         ELSE OptRes(Diff(b.e, d.e), d.s, TRUE)
      [] e.t = "Cat" ->
            LET rs == OptimizeAll(e.exprs, 1, s, wv)
            IN  IF ~rs.ok THEN OptRes(e, rs.s, FALSE) ELSE OptRes(Cat(rs.es), rs.s, TRUE)
      [] e.t = "Repeat" ->
            LET r == OptimizeExpr(e.expr, s, wv)
            IN  IF ~r.ok THEN r ELSE OptRes(RepeatCreate(r.e, e.min, e.max), r.s, TRUE)
      [] OTHER -> OptRes(e, s, TRUE)

RECURSIVE OptimizeRules(_, _, _, _)
\* {name: optimize_expr(Symbol(name)) for name, expr in rule_map.items()}
OptimizeRules(names, i, s, wv) ==
    IF i > Len(names) THEN [rules |-> <<>>, s |-> s, ok |-> TRUE]
    ELSE LET r == OptimizeExpr(Symbol(names[i]), s, wv)
         IN  IF ~r.ok THEN [rules |-> <<>>, s |-> r.s, ok |-> FALSE]
             ELSE LET rest == OptimizeRules(names, i + 1, r.s, wv)
                  IN  [rules |-> <<Rule(names[i], r.e)>> \o rest.rules,
                       s |-> rest.s, ok |-> rest.ok]

\* optimize(rule_map, with_visitor): the returned rule map (when ok; ValueError
\* otherwise) and the caller's dict as the call leaves it
Optimize(rm, wv) ==
    LET r == OptimizeRules([i \in 1..Len(rm) |-> rm[i].name], 1,
                           [rm |-> rm, seen |-> {}, visited |-> {}], wv)
    IN  [ok |-> r.ok, rule_map |-> r.rules, input |-> r.s.rm]

\* is_token(expr), is_ignored(expr): the expression carries the tag
is_token(expr) == "token" \in expr.meta

is_ignored(expr) == "ignore" \in expr.meta

\* what inline hands on: the expression, the closure's seen set and new_rules
\* dict (in insertion order), and whether it returned (ok) or raised KeyError
InlRes(e, s, ok) == [e |-> e, s |-> s, ok |-> ok]

RECURSIVE Inline(_, _, _, _)
RECURSIVE TransformInline(_, _, _, _)
RECURSIVE TransformInlineAll(_, _, _, _, _)

\* (transform(c, inline) for c in node.children), left to right
TransformInlineAll(exprs, i, s, rm, hv) ==
    IF i > Len(exprs) THEN [es |-> <<>>, s |-> s, ok |-> TRUE]
    ELSE LET r == TransformInline(exprs[i], s, rm, hv)
         IN  IF ~r.ok THEN [es |-> <<>>, s |-> r.s, ok |-> FALSE]
             ELSE LET rest == TransformInlineAll(exprs, i + 1, r.s, rm, hv)
                  IN  [es |-> <<r.e>> \o rest.es, s |-> rest.s, ok |-> rest.ok]

\* transform(node, inline) of model.py: inline is applied to the nodes without
\* children, every other node is rebuilt by cls.create from its transformed
\* children, which makes a node with no metadata
TransformInline(node, s, rm, hv) ==
    CASE node.t \in {"Alt", "Cat"} ->
            LET rs == TransformInlineAll(node.exprs, 1, s, rm, hv)
            IN  IF ~rs.ok THEN InlRes(node, rs.s, FALSE)
                ELSE InlRes(IF node.t = "Alt" THEN AltCreate(rs.es) ELSE CatCreate(rs.es),
                            rs.s, TRUE)
      [] node.t = "Repeat" ->
            LET r == TransformInline(node.expr, s, rm, hv)
            IN  IF ~r.ok THEN r ELSE InlRes(RepeatCreate(r.e, node.min, node.max), r.s, TRUE)
      [] node.t = "Diff" ->
            LET b == TransformInline(node.base, s, rm, hv)
            IN  IF ~b.ok THEN b
                ELSE LET d == TransformInline(node.diff, b.s, rm, hv)
                     IN  IF ~d.ok THEN d ELSE InlRes(Diff(b.e, d.e), d.s, TRUE)
      [] node.t = "Charset" -> InlRes(Charset(node.groups), s, TRUE)
      [] OTHER -> Inline(node, s, rm, hv)

\* inline(expr), the closure of inline_rules. The rule maps drawn hold no rule
\* whose body is a bare Symbol with metadata of its own, so the extend of
\* __meta__ never writes to an object another rule shares.
Inline(expr, s, rm, hv) ==
    IF expr.t # "Symbol" THEN InlRes(expr, s, TRUE)
    ELSE IF expr.name \in RuleNames(s.new_rules)
    THEN InlRes(Lookup(s.new_rules, expr.name), s, TRUE)
    ELSE IF expr.name \in s.seen THEN InlRes(expr, s, TRUE)
    ELSE LET s1 == [s EXCEPT !.seen = @ \cup {expr.name}]
         IN  IF expr.name \notin RuleNames(rm) THEN InlRes(expr, s1, FALSE)
             ELSE LET base_expr == Lookup(rm, expr.name)
                  IN  IF \/ expr.name \notin hv
                         \/ is_token(base_expr)
                         \/ is_ignored(base_expr)
                      THEN LET r == TransformInline(base_expr, s1, rm, hv)
                               e2 == WithMeta(r.e, base_expr.meta)
                           IN  IF ~r.ok THEN r
                               ELSE InlRes(e2,
                                      [r.s EXCEPT !.new_rules = Append(@, Rule(expr.name, e2))],
                                      TRUE)
                      ELSE InlRes(base_expr,
                                  [s1 EXCEPT !.new_rules = Append(@, Rule(expr.name, base_expr))],
                                  TRUE)

RECURSIVE InlineLoop(_, _, _, _)
\* for name in rule_map: inline(Symbol(name))
InlineLoop(rm, i, s, hv) ==
    IF i > Len(rm) THEN [s |-> s, ok |-> TRUE]
    ELSE LET r == Inline(Symbol(rm[i].name), s, rm, hv)
         IN  IF ~r.ok THEN [s |-> r.s, ok |-> FALSE] ELSE InlineLoop(rm, i + 1, r.s, hv)

\* inline_rules(rule_map, has_visitor_method): the dict new_rules
inline_rules(rule_map_, has_visitor_method) ==
    LET r == InlineLoop(rule_map_, 1, [seen |-> {}, new_rules |-> <<>>], has_visitor_method)
    IN  [ok |-> r.ok, rule_map |-> r.s.new_rules]

\* is_case_sensitive(expr): the String does not carry the flag i
is_case_sensitive(expr) == "i" \notin expr.meta

\* the function string_to_charset applies to a node
StringToCharset(expr) ==
    IF expr.t # "String" THEN expr
    ELSE IF Len(expr.value) # 1 THEN expr
    ELSE IF is_case_sensitive(expr) THEN Charset(<<Char(expr.value[1])>>)
    ELSE IF Lower(expr.value[1]) # Upper(expr.value[1])
    THEN Charset(<<Char(Lower(expr.value[1])), Char(Upper(expr.value[1]))>>)
    ELSE Charset(<<Char(expr.value[1])>>)

RECURSIVE CoalesceLoop(_, _, _)
\* the loop of the Alt case of the function coalesce_charsets applies to a node,
\* over children that are leaves: a Charset that follows a Charset is added to it
CoalesceLoop(exprs, i, new_exprs) ==
    IF i > Len(exprs) THEN new_exprs
    ELSE LET latest == new_exprs[Len(new_exprs)]
         IN  IF latest.t = "Charset" /\ exprs[i].t = "Charset"
             THEN CoalesceLoop(exprs, i + 1,
                      [new_exprs EXCEPT ![Len(new_exprs)] =
                          Charset(latest.groups \o exprs[i].groups)])
             ELSE CoalesceLoop(exprs, i + 1, Append(new_exprs, exprs[i]))

\* the Alt case of the function coalesce_charsets applies to a node
CoalesceAlt(exprs) == AltCreate(CoalesceLoop(exprs, 2, <<exprs[1]>>))

\* the Diff case of the function coalesce_charsets applies to a node:
\* Charset.create of no group raises ValueError
CoalesceDiff(base, diff) ==
    IF base.t = "Charset" /\ diff.t = "Charset"
    THEN LET gs == SubtractGroups(base.groups, diff.groups)
         IN  IF gs = <<>> THEN [ok |-> FALSE, e |-> Diff(base, diff)]
             ELSE [ok |-> TRUE, e |-> Charset(gs)]
    ELSE [ok |-> TRUE, e |-> Diff(base, diff)]

-----------------------------------------------------------------------------
(* The rule-map builder: runtime.py *)

\* Rule(name, expr, is_additional_cat, is_additional_alt) as Grammar.rules holds it
GrammarRule(n, e, is_additional_cat, is_additional_alt) ==
    [name |-> n, expr |-> e, is_additional_cat |-> is_additional_cat,
     is_additional_alt |-> is_additional_alt]

BASE_OPTIONS == {"ignore", "warn", "error"}
DUPLICATE_OPTIONS == {"overrides", "overloads"} \cup BASE_OPTIONS

\* handle_problem(msg, option): what the call does
handle_problem(option) ==
    IF option = "warn" THEN "warned"
    ELSE IF option = "error" THEN "ValueError"
    ELSE IF option = "ignore" THEN "silent"
    ELSE "AssertionError"

\* rule_map[name] = expr: a new key goes last, a known key keeps its place
PutRule(rm, n, e) ==
    IF n \in RuleNames(rm) THEN SetRule(rm, n, e) ELSE Append(rm, Rule(n, e))

RECURSIVE RuleMapLoop(_, _, _, _, _)
\* the loop over grammar.rules of build_rule_map
RuleMapLoop(rules, i, rm, duplicate_rules, on_duplicate_rule) ==
    IF i > Len(rules) THEN [rule_map |-> rm, duplicate_rules |-> duplicate_rules]
    ELSE LET rule == rules[i]
             name == rule.name
         IN  IF name \notin RuleNames(rm) \/ on_duplicate_rule = "overrides"
             THEN RuleMapLoop(rules, i + 1, PutRule(rm, name, rule.expr),
                              duplicate_rules, on_duplicate_rule)
             ELSE IF rule.is_additional_alt \/ on_duplicate_rule = "overloads"
             THEN RuleMapLoop(rules, i + 1,
                              SetRule(rm, name, AltCreate(<<Lookup(rm, name), rule.expr>>)),
                              duplicate_rules, on_duplicate_rule)
             ELSE IF rule.is_additional_cat
             THEN RuleMapLoop(rules, i + 1,
                              SetRule(rm, name, CatCreate(<<Lookup(rm, name), rule.expr>>)),
                              duplicate_rules, on_duplicate_rule)
             ELSE RuleMapLoop(rules, i + 1, rm, Append(duplicate_rules, name),
                              on_duplicate_rule)

\* a build_rule_map that does not look for undefined rules
build_rule_mapUnchecked(rules, on_duplicate_rule) ==
    LET r == RuleMapLoop(rules, 1, <<>>, <<>>, on_duplicate_rule)
    IN  IF r.duplicate_rules # <<>> /\ on_duplicate_rule = "error"
        THEN [ok |-> FALSE, err |-> "Duplicate rule(s)", rule_map |-> r.rule_map,
              warned |-> FALSE]
        ELSE [ok |-> TRUE, err |-> "none", rule_map |-> r.rule_map,
              warned |-> r.duplicate_rules # <<>> /\ on_duplicate_rule = "warn"]

\* Runtime.build_rule_map(grammar, on_duplicate_rule) for a grammar without
\* directives: the rule map, or the error raised; warned when a warning was emitted
build_rule_map(rules, on_duplicate_rule) ==
    IF on_duplicate_rule \notin DUPLICATE_OPTIONS
    THEN [ok |-> FALSE, err |-> "on_duplicate_rule must be one of", rule_map |-> <<>>,
          warned |-> FALSE]
    ELSE LET r == RuleMapLoop(rules, 1, <<>>, <<>>, on_duplicate_rule)
             problem == IF r.duplicate_rules = <<>> THEN "none"
                        ELSE handle_problem(on_duplicate_rule)
             seen == UNION {Symbols(r.rule_map[i].expr) : i \in 1..Len(r.rule_map)}
             missing == seen \ RuleNames(r.rule_map)
         IN  IF problem \in {"ValueError", "AssertionError"}
             THEN [ok |-> FALSE, err |-> "Duplicate rule(s)", rule_map |-> r.rule_map,
                   warned |-> FALSE]
             ELSE IF missing # {}
             THEN [ok |-> FALSE, err |-> "Undefined rule(s)", rule_map |-> r.rule_map,
                   warned |-> problem = "warned"]
             ELSE [ok |-> TRUE, err |-> "none", rule_map |-> r.rule_map,
                   warned |-> problem = "warned"]

\* name.replace("-", "_")
ReplaceHyphens(name) == [i \in 1..Len(name) |-> IF name[i] = 45 THEN 95 ELSE name[i]]

RECURSIVE MethodMapLoop(_, _, _, _, _)
\* the loop over rule_names of build_method_map: method_names.pop(method_name, None)
\* takes the method out of the dict of visit_ methods
MethodMapLoop(rule_names, i, method_names, mm, visitor) ==
    IF i > Len(rule_names) THEN [method_map |-> mm, method_names |-> method_names]
    ELSE LET method_name == ReplaceHyphens(rule_names[i])
         IN  IF method_name \in method_names
             THEN MethodMapLoop(rule_names, i + 1, method_names \ {method_name},
                                mm @@ (rule_names[i] :>
                                          [visitor |-> visitor.id, method |-> method_name]),
                                visitor)
             ELSE MethodMapLoop(rule_names, i + 1, method_names, mm, visitor)

\* Runtime.build_method_map(rule_names, visitor, on_unused_visitor_methods);
\* visitor.methods holds the names of its visit_ methods without the prefix
build_method_map(rule_names, visitor, on_unused_visitor_methods) ==
    IF on_unused_visitor_methods \notin BASE_OPTIONS
    THEN [ok |-> FALSE, err |-> "on_unused_visitor_methods must be one of",
          method_map |-> <<>>, warned |-> FALSE]
    ELSE LET r == MethodMapLoop(rule_names, 1, visitor.methods, <<>>, visitor)
             problem == IF r.method_names = {} THEN "none"
                        ELSE handle_problem(on_unused_visitor_methods)
         IN  IF problem \in {"ValueError", "AssertionError"}
             THEN [ok |-> FALSE, err |-> "Unused visitor method(s)",
                   method_map |-> r.method_map, warned |-> FALSE]
             ELSE [ok |-> TRUE, err |-> "none", method_map |-> r.method_map,
                   warned |-> problem = "warned"]

\* ignored_rule_starts_with_underscore(name, expr)
ignored_rule_starts_with_underscore(name, expr) ==
    IF name[1] = ord.underscore THEN WithMeta(expr, {"ignore"}) ELSE expr

\* token_rule_starts_with_uppercase(name, expr)
token_rule_starts_with_uppercase(name, expr) ==
    IF IsUpper(name[1]) THEN WithMeta(expr, {"token"}) ELSE expr

\* rule_to_rulemap_transform(f) for the two naming conventions, one after the other
TagRules(rm) ==
    [i \in 1..Len(rm) |->
        Rule(rm[i].name,
             token_rule_starts_with_uppercase(rm[i].name,
                 ignored_rule_starts_with_underscore(rm[i].name, rm[i].expr)))]

\* Visitor(): the visitor from_grammar takes when none is given
DefaultVisitor == [id |-> "Visitor()", methods |-> {}]

\* rt = cls(rule_map=rule_map, method_map=method_map) for the rule map the
\* transforms returned (opt), or the error optimize raised
RuntimeOf(opt, mm) ==
    IF ~opt.ok
    THEN [ok |-> FALSE, err |-> "optimize raised", rule_map |-> <<>>, method_map |-> <<>>]
    ELSE [ok |-> TRUE, err |-> "none", rule_map |-> opt.rule_map, method_map |-> mm]

\* the uncached part of Runtime.from_grammar with the default rulemap_transforms:
\* build_rule_map, build_method_map, the naming conventions, optimize
BuildRuntime(grammar, visitor, on_duplicate_rule, on_unused_visitor_methods) ==
    LET rb == build_rule_map(grammar, on_duplicate_rule)
        mb == build_method_map([i \in 1..Len(rb.rule_map) |-> rb.rule_map[i].name],
                               visitor, on_unused_visitor_methods)
    IN  IF ~rb.ok THEN [ok |-> FALSE, err |-> rb.err, rule_map |-> <<>>, method_map |-> <<>>]
        ELSE IF ~mb.ok
        THEN [ok |-> FALSE, err |-> mb.err, rule_map |-> <<>>, method_map |-> <<>>]
        ELSE RuntimeOf(Optimize(TagRules(rb.rule_map), DOMAIN mb.method_map),
                       mb.method_map)

-----------------------------------------------------------------------------
(* The grammars and texts the model draws *)

\* rule names, as code points
nm == [s |-> <<115>>, t |-> <<116>>,
       INT |-> <<73, 78, 84>>, digit |-> <<100, 105, 103, 105, 116>>,
       sep |-> <<95, 115, 101, 112>>, n |-> <<110>>, sign |-> <<115, 105, 103, 110>>,
       D |-> <<68>>]

strA == String(<<ord.A>>)
strB == String(<<ord.B>>)
strAA == String(<<ord.A, ord.A>>)
strAB == String(<<ord.A, ord.B>>)
symS == Symbol(nm.s)

NoVisitor == <<>>

G(rules, vis) == [rules |-> rules, vis |-> vis]

\* Repeat(String("A"), min, max) for the (min, max) pairs of test_parse_repeat,
\* scaled, and the corner max = 0
RepeatBounds == {<<0, None>>, <<1, None>>, <<2, None>>, <<0, 1>>, <<1, 1>>, <<1, 2>>,
                 <<2, 3>>, <<0, 0>>}

tokenRules ==
    <<Rule(nm.INT, RepeatCreate(AltCreate(<<Symbol(nm.digit), Symbol(nm.sep)>>), 1, None)),
      Rule(nm.digit, Charset(<<CharRange(ord.A, ord.B)>>)),
      Rule(nm.sep, Charset(<<Char(ord.a)>>))>>

numberRules ==
    <<Rule(nm.n, CatCreate(<<RepeatCreate(Symbol(nm.sign), 0, 1), Symbol(nm.D)>>)),
      Rule(nm.sign, Charset(<<Char(ord.a)>>)),
      Rule(nm.D, RepeatCreate(Charset(<<CharRange(ord.A, ord.B)>>), 1, None))>>

ambiguousEof ==
    AltCreate(<<CatCreate(<<strA, symS>>), CatCreate(<<strAA, symS>>),
                CatCreate(<<strA, EndOfFile>>)>>)

Grammars ==
    {G(<<Rule(nm.s, e)>>, NoVisitor) : e \in {
        strA,
        AltCreate(<<strA, strB>>),
        AltCreate(<<strA, strAB, strA>>),
        CatCreate(<<strA, strB>>),
        AltCreate(<<CatCreate(<<strA, symS>>), strB>>),
        Charset(<<Char(ord.A), Char(ord.a)>>),
        Charset(<<CharRange(ord.A, ord.B)>>),
        Diff(Charset(<<CharRange(ord.A, ord.a)>>), Charset(<<Char(ord.B)>>)),
        Diff(Charset(<<CharRange(ord.A, ord.C), Char(ord.B)>>), Charset(<<Char(ord.B)>>)),
        Diff(Charset(<<CharRange(ord.A, ord.B)>>), Charset(<<CharRange(ord.A, ord.C)>>)),
        Diff(CatCreate(<<strA, strB>>), strA),
        Diff(AltCreate(<<strA, strAB>>), strAB),
        Diff(RepeatCreate(strA, 0, None), strAA),
        RepeatCreate(CatCreate(<<strA, symS, strB>>), 0, 1),
        RepeatCreate(AltCreate(<<strAA, strA, strB>>), 0, None),
        RepeatCreate(RepeatCreate(strA, 0, 1), 0, 2),
        RepeatCreate(RepeatCreate(strA, 0, 1), 0, None),
        AltCreate(<<CatCreate(<<symS, strA>>), strA>>),
        AltCreate(<<CatCreate(<<strA, symS>>), CatCreate(<<strAA, symS>>), strA>>),
        ambiguousEof,
        CatCreate(<<RepeatCreate(strA, 0, None), EndOfFile>>),
        WithMeta(String(<<ord.a>>), {"i"}),
        CatCreate(<<WithMeta(String(<<ord.a, ord.B>>), {"i"}), strA>>)}}
    \cup {G(<<Rule(nm.s, RepeatCreate(strA, b[1], b[2]))>>, NoVisitor) : b \in RepeatBounds}
    \cup {G(tokenRules, vis) : vis \in {NoVisitor,
                                        (nm.INT :> "opaque"),
                                        (nm.INT :> "ident"),
                                        (nm.digit :> "opaque")}}
    \cup {G(numberRules, vis) : vis \in {NoVisitor,
                                         (nm.n :> "opaque") @@ (nm.sign :> "ident")
                                             @@ (nm.D :> "ident"),
                                         (nm.n :> "ident") @@ (nm.sign :> "opaque")}}

RECURSIVE Texts(_)
\* the texts of length at most n over TextAlphabet
Texts(n) ==
    IF n = 0 THEN {<<>>}
    ELSE LET shorter == Texts(n - 1)
         IN  shorter \cup {Append(t, c) : t \in shorter, c \in TextAlphabet}

\* test_parse_ignored: INT = (digit | _sep)+ over the decimal digits, on "1 234_567"
integerRules ==
    <<Rule(nm.INT, RepeatCreate(AltCreate(<<Symbol(nm.digit), Symbol(nm.sep)>>), 1, None)),
      Rule(nm.digit, Charset(<<CharRange(48, 57)>>)),
      Rule(nm.sep, Charset(<<Char(32), Char(ord.underscore)>>))>>

integerText == <<49, 32, 50, 51, 52, 95, 53, 54, 55>>

\* test_parse_symbol: s = "A" s | "!"
bangRules == <<Rule(nm.s, AltCreate(<<CatCreate(<<strA, symS>>), String(<<ord.bang>>)>>))>>

\* test_parse_charset_diff: [a-z] minus [A m w-z]
charsetDiffRules ==
    <<Rule(nm.s, Diff(Charset(<<CharRange(97, 122)>>),
                      Charset(<<Char(65), Char(109), CharRange(119, 122)>>)))>>

\* test_parse_error: s = ("A" | "\n")+
newlineRules == <<Rule(nm.s, RepeatCreate(AltCreate(<<strA, String(<<10>>)>>), 1, None))>>

RECURSIVE LinesTexts(_)
\* the texts of at most n characters over A, B and the newline
LinesTexts(n) ==
    IF n = 0 THEN {<<>>}
    ELSE LET shorter == LinesTexts(n - 1)
         IN  shorter \cup {Append(t, c) : t \in shorter, c \in {ord.A, ord.B, 10}}

\* the scenarios of the test suite, with their own texts
Scenarios ==
    {[g |-> G(bangRules, NoVisitor), text |-> <<ord.A, ord.A, ord.bang>>],
     [g |-> G(integerRules, NoVisitor), text |-> integerText]}
    \cup {[g |-> G(charsetDiffRules, NoVisitor), text |-> <<c>>] :
              c \in {97, 108, 110, 118, 65, 109, 120, 122}}
    \cup {[g |-> G(newlineRules, NoVisitor), text |-> t] : t \in LinesTexts(MaxLen)}
    \cup {[g |-> G(newlineRules, NoVisitor), text |-> <<ord.A, 10, ord.A, ord.A, ord.B>>]}

-----------------------------------------------------------------------------
(* The state machine *)

RECURSIVE SubExprs(_)
SubExprs(e) ==
    {e} \cup
    CASE e.t \in {"Alt", "Cat"} -> UNION {SubExprs(e.exprs[i]) : i \in 1..Len(e.exprs)}
      [] e.t = "Repeat" -> SubExprs(e.expr)
      [] e.t = "Diff" -> SubExprs(e.base) \cup SubExprs(e.diff)
      [] OTHER -> {}

RuleExprs(rm) == UNION {SubExprs(rm[i].expr) : i \in 1..Len(rm)}

\* the caller states and scopes an expression is matched from
CallerResults == {<<>>, <<StrVal(<<ord.x>>)>>}
Scopes == {NoKw, [ign |-> TRUE, tok |-> FALSE], [ign |-> FALSE, tok |-> TRUE]}

Init ==
    \E sc \in {[g |-> g, text |-> t] : g \in Grammars, t \in Texts(MaxLen)} \cup Scenarios :
        LET p == ParserInit(sc.g.rules, sc.g.vis)
        IN  /\ p.ok
            /\ rule_map = p.rule_map
            /\ method_map = p.method_map
            /\ text = sc.text
            /\ pc = "ready"
            /\ out = [op |-> "none"]
            /\ runtime_cache = <<>>
            /\ iters = <<>>
            /\ jobs = <<>>

\* list(parser.parse(text, start, offset, debug))
Parse ==
    /\ pc = "ready"
    /\ \E start \in RuleNames(rule_map), offset \in 0..Len(text), debug \in BOOLEAN :
        out' = [op |-> "parse", start |-> start, offset |-> offset, debug |-> debug,
                res |-> ParserParse(rule_map, method_map, text, start, offset, debug)]
    /\ pc' = "parse"
    /\ UNCHANGED <<rule_map, method_map, text, runtime_cache, iters, jobs>>

\* parser.first_parse(text, start, offset, debug)
FirstParse ==
    /\ pc = "ready"
    /\ \E start \in RuleNames(rule_map), offset \in 0..Len(text), debug \in BOOLEAN :
        out' = [op |-> "first_parse", start |-> start, offset |-> offset, debug |-> debug,
                res |-> ParserFirstParse(rule_map, method_map, text, start, offset, debug)]
    /\ pc' = "first_parse"
    /\ UNCHANGED <<rule_map, method_map, text, runtime_cache, iters, jobs>>

\* list(job._parse_expr(state, expr, **kwargs)) on a fresh job
Match ==
    /\ pc = "ready"
    /\ \E e \in RuleExprs(rule_map), offset \in 0..Len(text), r \in CallerResults,
          kw \in Scopes :
        out' = [op |-> "match", expr |-> e, st |-> State(offset, r), kw |-> kw,
                trace |-> ParseExpr(Job(rule_map, method_map, text, -1),
                                    State(offset, r), e, kw, <<>>)]
    /\ pc' = "match"
    /\ UNCHANGED <<rule_map, method_map, text, runtime_cache, iters, jobs>>

\* new_map = optimize(parser_rule_map, method_map): the dict is rewritten in place
OptimizeRuleMap ==
    /\ pc = "ready"
    /\ LET r == Optimize(rule_map, DOMAIN method_map)
       IN  /\ out' = [op |-> "optimize", before |-> rule_map, ok |-> r.ok,
                      rule_map |-> r.rule_map]
           /\ rule_map' = r.input
    /\ pc' = "optimize"
    /\ UNCHANGED <<method_map, text, runtime_cache, iters, jobs>>

\* str(ParseError(text, offset, msg))
StrError ==
    /\ pc = "ready"
    /\ \E offset \in 0..Len(text) :
        out' = [op |-> "str", offset |-> offset, res |-> ParseErrorStr(text, offset)]
    /\ pc' = "str"
    /\ UNCHANGED <<rule_map, method_map, text, runtime_cache, iters, jobs>>

Next == Parse \/ FirstParse \/ Match \/ OptimizeRuleMap \/ StrError

Spec == Init /\ [][Next]_vars

-----------------------------------------------------------------------------
(* The state machine of the rule-map builder *)

\* most runtimes the cache holds in a run
MaxCached == 2

RECURSIVE StripMeta(_)
\* an expression as == and hash() see it: __meta__ is declared eq=False, hash=False
StripMeta(e) ==
    CASE e.t \in {"Alt", "Cat"} ->
            [e EXCEPT !.meta = {}, !.exprs = [i \in 1..Len(e.exprs) |-> StripMeta(e.exprs[i])]]
      [] e.t = "Repeat" -> [e EXCEPT !.meta = {}, !.expr = StripMeta(e.expr)]
      [] e.t = "Diff" ->
            [e EXCEPT !.meta = {}, !.base = StripMeta(e.base), !.diff = StripMeta(e.diff)]
      [] OTHER -> [e EXCEPT !.meta = {}]

\* the key under which a dict holds a Grammar
GrammarKey(grammar) ==
    [i \in 1..Len(grammar) |-> [grammar[i] EXCEPT !.expr = StripMeta(@)]]

\* rule names with a hyphen and with an underscore
hyphenName == <<97, 45, 98>>
underscoreName == <<97, 95, 98>>

Plain(n, e) == GrammarRule(n, e, FALSE, FALSE)

\* the grammars handed to Runtime.from_grammar and Parser
RuntimeGrammars ==
    {<<Plain(nm.s, CatCreate(<<strA, Symbol(nm.t)>>)), Plain(nm.t, strB)>>,
     <<Plain(nm.s, Symbol(nm.t))>>,
     <<Plain(nm.s, Symbol(nm.t)), Plain(nm.s, strA)>>,
     <<Plain(nm.s, strA), Plain(nm.s, Symbol(nm.t))>>,
     <<Plain(hyphenName, strA), Plain(underscoreName, strB)>>,
     <<Plain(nm.s, AltCreate(<<CatCreate(<<strA, symS>>), strB>>))>>,
     <<Plain(nm.s, strAB)>>,
     <<Plain(nm.s, WithMeta(strAB, {"i"}))>>,
     <<Plain(nm.s, CatCreate(<<Symbol(nm.t), Symbol(nm.t)>>)),
       Plain(nm.t, AltCreate(<<strA, strB>>))>>,
     <<Plain(nm.s, CatCreate(<<Symbol(nm.D), Symbol(nm.D)>>)),
       Plain(nm.D, AltCreate(<<strAA, strB>>))>>}
    \cup {<<Plain(nm.s, strAA), GrammarRule(nm.s, strAB, cat, alt)>> :
              cat \in BOOLEAN, alt \in BOOLEAN}

\* visitors: the default one, and two with visit_ methods of their own
Visitors ==
    {DefaultVisitor,
     [id |-> "v1", methods |-> {nm.s}],
     [id |-> "v2", methods |-> {nm.t, underscoreName}],
     [id |-> "v3", methods |-> {nm.s, nm.D}]}

\* the policies a call is made with; "strict" is not a policy
Policies ==
    {[on_duplicate_rule |-> d, on_unused_visitor_methods |-> "error"] :
        d \in DUPLICATE_OPTIONS \cup {"strict"}}
    \cup {[on_duplicate_rule |-> "error", on_unused_visitor_methods |-> u] :
        u \in BASE_OPTIONS \cup {"strict"}}
    \cup {[on_duplicate_rule |-> d, on_unused_visitor_methods |-> "ignore"] :
        d \in DUPLICATE_OPTIONS}

\* the grammars built with use_cache=True: the same rule with and without the
\* flag i, a rule defined twice, and a rule referring to another
CachedGrammars ==
    {<<Plain(nm.s, strAB)>>,
     <<Plain(nm.s, WithMeta(strAB, {"i"}))>>,
     <<Plain(nm.s, strAA), Plain(nm.s, strAB)>>,
     <<Plain(nm.s, CatCreate(<<Symbol(nm.t), Symbol(nm.t)>>)),
       Plain(nm.t, AltCreate(<<strA, strB>>))>>}

\* the calls of Runtime.from_grammar the model draws
Calls ==
    {[grammar |-> g, visitor |-> v, on_duplicate_rule |-> p.on_duplicate_rule,
      on_unused_visitor_methods |-> p.on_unused_visitor_methods, use_cache |-> FALSE] :
        g \in RuntimeGrammars, v \in Visitors, p \in Policies}
    \cup {[grammar |-> g, visitor |-> v, on_duplicate_rule |-> d,
           on_unused_visitor_methods |-> "ignore", use_cache |-> TRUE] :
        g \in CachedGrammars, v \in Visitors \ {[id |-> "v3", methods |-> {nm.s, nm.D}]},
        d \in {"error", "overrides", "overloads"}}

\* grammar in cls._runtime_cache
Cached(cache, key) == \E i \in 1..Len(cache) : cache[i].grammar = key

\* cls._runtime_cache[grammar]
CacheGet(cache, key) ==
    LET i == CHOOSE i \in 1..Len(cache) : cache[i].grammar = key IN cache[i].runtime

RuntimeInit ==
    /\ rule_map = <<>>
    /\ method_map = <<>>
    /\ text = <<>>
    /\ pc = "ready"
    /\ out = [op |-> "none"]
    /\ runtime_cache = <<>>
    /\ iters = <<>>
    /\ jobs = <<>>

\* what a call c of Runtime.from_grammar leaves: rt is the runtime it returns
\* (the cached one on a hit), stored in the cache when use_cache is set and the
\* build did not raise
FromGrammarReturns(c, key, hit, rt) ==
    LET stored == c.use_cache /\ ~hit /\ rt.ok
    IN  /\ stored => Len(runtime_cache) < MaxCached
        /\ runtime_cache' = IF stored
                            THEN Append(runtime_cache, [grammar |-> key, runtime |-> rt])
                            ELSE runtime_cache
        /\ out' = [op |-> "from_grammar", grammar |-> c.grammar, visitor |-> c.visitor,
                   on_duplicate_rule |-> c.on_duplicate_rule,
                   on_unused_visitor_methods |-> c.on_unused_visitor_methods,
                   use_cache |-> c.use_cache, hit |-> hit, stored |-> stored,
                   res |-> rt]

\* Runtime.from_grammar(grammar, visitor, on_duplicate_rule,
\* on_unused_visitor_methods, use_cache=use_cache) for a call c. A call that left the cache as
\* it was is the last of its run: the calls after it would see what they see
\* without it.
FromGrammar ==
    /\ pc = "ready" \/ (pc = "from_grammar" /\ out.stored)
    /\ \E c \in Calls :
        LET key == GrammarKey(c.grammar)
            hit == c.use_cache /\ Cached(runtime_cache, key)
        IN  FromGrammarReturns(c, key, hit,
                IF hit THEN CacheGet(runtime_cache, key)
                ELSE BuildRuntime(c.grammar, c.visitor, c.on_duplicate_rule,
                                  c.on_unused_visitor_methods))
    /\ pc' = "from_grammar"
    /\ UNCHANGED <<rule_map, method_map, text, iters, jobs>>

\* Parser(grammar, visitor)
ConstructParser ==
    /\ pc = "ready"
    /\ \E grammar \in RuntimeGrammars, visitor \in Visitors :
        out' = [op |-> "parser", grammar |-> grammar, visitor |-> visitor,
                res |-> ParserInit([i \in 1..Len(grammar) |->
                                       Rule(grammar[i].name, grammar[i].expr)],
                                   [n \in visitor.methods |-> "opaque"])]
    /\ pc' = "parser"
    /\ UNCHANGED <<rule_map, method_map, text, runtime_cache, iters, jobs>>

RuntimeNext == FromGrammar \/ ConstructParser

RuntimeSpec == RuntimeInit /\ [][RuntimeNext]_vars

-----------------------------------------------------------------------------
(* The state machine of the generators of one Parser *)

\* test_first_parse: s = ("<" s ">")?
nestedRules ==
    <<Rule(nm.s, RepeatCreate(CatCreate(<<String(<<60>>), symS, String(<<62>>)>>), 0, 1))>>

\* the head of the text of test_first_parse, "<><<>>"
nestedText == <<60, 62, 60, 60, 62, 62>>

\* a call of parse or first_parse: its start, offset and debug arguments
Call(start, offset, debug) == [start |-> start, offset |-> offset, debug |-> debug]

\* one Parser, one text and the calls made on them: the grammar of
\* test_first_parse, an ambiguous grammar, grammars with no match at some
\* offset, and a grammar with a visitor
IterScenarios ==
    {[g |-> G(nestedRules, NoVisitor), text |-> nestedText,
      calls |-> {Call(nm.s, 0, TRUE), Call(nm.s, 2, TRUE)}],
     [g |-> G(<<Rule(nm.s, AltCreate(<<CatCreate(<<strA, symS>>),
                                      CatCreate(<<strAA, symS>>), strA>>))>>, NoVisitor),
      text |-> <<ord.A, ord.A, ord.A>>,
      calls |-> {Call(nm.s, 0, TRUE), Call(nm.s, 3, TRUE)}],
     [g |-> G(<<Rule(nm.s, CatCreate(<<strA, strB>>))>>, NoVisitor),
      text |-> <<ord.A, ord.A, ord.B>>,
      calls |-> {Call(nm.s, 0, TRUE), Call(nm.s, 0, FALSE)}],
     [g |-> G(<<Rule(nm.s, Diff(CatCreate(<<strA, strB>>), strA))>>, NoVisitor),
      text |-> <<ord.A, ord.B>>,
      calls |-> {Call(nm.s, 0, TRUE), Call(nm.s, 0, FALSE)}],
     [g |-> G(tokenRules, (nm.INT :> "opaque")), text |-> <<ord.A, ord.a, ord.x>>,
      calls |-> {Call(nm.INT, 0, TRUE), Call(nm.INT, 2, TRUE)}]}

\* the calls made on the Parser of the run
IterCalls ==
    UNION {sc.calls : sc \in {x \in IterScenarios :
                                  /\ x.text = text
                                  /\ ParserInit(x.g.rules, x.g.vis).rule_map = rule_map
                                  /\ ParserInit(x.g.rules, x.g.vis).method_map = method_map}}

IterInit ==
    \E sc \in IterScenarios :
        LET p == ParserInit(sc.g.rules, sc.g.vis)
        IN  /\ p.ok
            /\ rule_map = p.rule_map
            /\ method_map = p.method_map
            /\ text = sc.text
            /\ pc = "ready"
            /\ out = [op |-> "none"]
            /\ runtime_cache = <<>>
            /\ iters = <<>>
            /\ jobs = <<>>

\* it = parser.parse(text, start, offset, debug): nothing of the body runs yet
NewIter ==
    /\ Len(iters) < MaxIters
    /\ \E c \in IterCalls :
        iters' = Append(iters, NewIterator(c.start, c.offset, c.debug))
    /\ pc' = "iter"
    /\ out' = [op |-> "iter"]
    /\ UNCHANGED <<rule_map, method_map, text, runtime_cache, jobs>>

\* next(it) for one of the live generators: the first call makes the job
NextItem ==
    /\ \E i \in 1..Len(iters) :
        /\ iters[i].status \in {"new", "running"}
        /\ LET alloc == IF iters[i].status = "new" THEN NewJob(jobs)
                        ELSE [index |-> iters[i].job, jobs |-> jobs]
               r == Resume(rule_map, method_map, text,
                           [iters[i] EXCEPT !.job = alloc.index], alloc.jobs[alloc.index])
           IN  /\ iters' = [iters EXCEPT ![i] = r.it]
               /\ jobs' = [alloc.jobs EXCEPT ![alloc.index] = r.job]
               /\ out' = [op |-> "iter"]
    /\ pc' = "iter"
    /\ UNCHANGED <<rule_map, method_map, text, runtime_cache>>

\* del it, or it.close(): the generator is dropped before its end
Abandon ==
    /\ \E i \in 1..Len(iters) :
        /\ iters[i].status \in {"new", "running"}
        /\ iters' = [iters EXCEPT ![i].status = "closed"]
        /\ out' = [op |-> "iter"]
    /\ pc' = "iter"
    /\ UNCHANGED <<rule_map, method_map, text, runtime_cache, jobs>>

\* parser.first_parse(text, start, offset, debug) while the other generators
\* are alive: a generator is made, advanced once and dropped with its job
IterFirstParse ==
    /\ \E c \in IterCalls :
        LET start == c.start
            offset == c.offset
            debug == c.debug
            alloc == NewJob(jobs)
            it == [NewIterator(start, offset, debug) EXCEPT !.job = alloc.index]
            r == Resume(rule_map, method_map, text, it, alloc.jobs[alloc.index])
        IN  /\ out' = [op |-> "first_parse", start |-> start, offset |-> offset,
                       debug |-> debug,
                       res |-> [items |-> r.it.items, raised |-> r.it.raised,
                                excs |-> r.it.excs]]
            /\ jobs' = IF alloc.index <= Len(jobs)
                       THEN [jobs EXCEPT ![alloc.index] = r.job]
                       ELSE jobs
    /\ pc' = "first_parse"
    /\ UNCHANGED <<rule_map, method_map, text, runtime_cache, iters>>

IterNext == NewIter \/ NextItem \/ Abandon \/ IterFirstParse

IterSpec == IterInit /\ [][IterNext]_vars

-----------------------------------------------------------------------------
(* The regex writer: grammars/python_re_writer.py *)

\* the characters of the regex syntax, by code point
re_ch == [lparen |-> 40, rparen |-> 41, star |-> 42, plus |-> 43, comma |-> 44,
          hyphen |-> 45, zero |-> 48, colon |-> 58, question |-> 63, lbracket |-> 91,
          backslash |-> 92, rbracket |-> 93, caret |-> 94, i |-> 105, lbrace |-> 123,
          bar |-> 124, rbrace |-> 125]

\* the characters re.escape puts a backslash before: ()[]{}?*+-|^$\.&~# and whitespace
ReSpecial == {40, 41, 91, 93, 123, 125, 63, 42, 43, 45, 124, 94, 36, 92, 46, 38, 126, 35,
              32, 9, 10, 13, 11, 12}

RECURSIVE ReEscape(_)
\* re.escape(value)
ReEscape(s) ==
    IF s = <<>> THEN <<>>
    ELSE (IF Head(s) \in ReSpecial THEN <<re_ch.backslash, Head(s)>> ELSE <<Head(s)>>)
         \o ReEscape(Tail(s))

\* CHAR_ESCAPE.serialize(ch) for a printable ASCII character: - ] ^ \ get a backslash
CharEscape(c) ==
    IF c \in {re_ch.hyphen, re_ch.rbracket, re_ch.caret, re_ch.backslash}
    THEN <<re_ch.backslash, c>> ELSE <<c>>

RECURSIVE DecimalStr(_)
\* str(n) of a non-negative int
DecimalStr(n) ==
    IF n < 10 THEN <<re_ch.zero + n>>
    ELSE DecimalStr(n \div 10) \o <<re_ch.zero + (n % 10)>>

python_re_priority(e) ==
    CASE e.t = "Alt" -> 100
      [] e.t = "Diff" -> 75
      [] e.t = "Cat" -> 50
      [] e.t = "Repeat" -> 25
      [] OTHER -> 0

\* a rendering, or the DispatchError of a node type no method is registered for
ReOk(s) == [ok |-> TRUE, re |-> s]
ReErr == [ok |-> FALSE, re |-> <<>>]

RECURSIVE ReJoin(_, _, _)
\* sep.join(parts[i..]); the generator stops at the first part that raises
ReJoin(sep, parts, i) ==
    IF i > Len(parts) THEN ReOk(<<>>)
    ELSE IF ~parts[i].ok THEN ReErr
    ELSE LET rest == ReJoin(sep, parts, i + 1)
         IN  IF ~rest.ok THEN ReErr
             ELSE ReOk(parts[i].re \o (IF i < Len(parts) THEN sep ELSE <<>>) \o rest.re)

\* to_python_re(g) of a Char or a CharRange
GroupToPythonRe(g) ==
    IF g.t = "Char" THEN CharEscape(g.char)
    ELSE CharEscape(g.start) \o <<re_ch.hyphen>> \o CharEscape(g.end)

\* the quantifier the four Repeat methods append
RepeatSuffix(e) ==
    CASE e.cls = "Optional" -> <<re_ch.question>>
      [] e.cls = "ZeroOrMore" -> <<re_ch.star>>
      [] e.cls = "OneOrMore" -> <<re_ch.plus>>
      [] OTHER ->
            LET min == IF e.min # 0 THEN DecimalStr(e.min) ELSE <<>>
                max == IF e.max # None THEN DecimalStr(e.max) ELSE <<>>
            IN  IF min # <<>> /\ max # <<>> /\ min = max
                THEN <<re_ch.lbrace>> \o min \o <<re_ch.rbrace>>
                ELSE <<re_ch.lbrace>> \o min \o <<re_ch.comma>> \o max \o <<re_ch.rbrace>>

\* to_python_re(self, parent_priority), given the rendering r of self
Wrap(r, priority, parent_priority) ==
    IF ~r.ok THEN ReErr
    ELSE IF priority > parent_priority
    THEN ReOk(<<re_ch.lparen, re_ch.question, re_ch.colon>> \o r.re \o <<re_ch.rparen>>)
    ELSE r

RECURSIVE to_python_re(_)
\* to_python_re(self): the pattern as a string of code points
to_python_re(e) ==
    CASE e.t = "Alt" ->
            ReJoin(<<re_ch.bar>>,
                   [i \in 1..Len(e.exprs) |->
                       Wrap(to_python_re(e.exprs[i]), python_re_priority(e.exprs[i]),
                            python_re_priority(e))], 1)
      [] e.t = "Cat" ->
            ReJoin(<<>>,
                   [i \in 1..Len(e.exprs) |->
                       Wrap(to_python_re(e.exprs[i]), python_re_priority(e.exprs[i]),
                            python_re_priority(e))], 1)
      [] e.t = "Repeat" ->
            LET expr == Wrap(to_python_re(e.expr), python_re_priority(e.expr),
                             python_re_priority(e))
            IN  IF ~expr.ok THEN ReErr ELSE ReOk(expr.re \o RepeatSuffix(e))
      [] e.t = "String" ->
            IF is_case_sensitive(e) THEN ReOk(ReEscape(e.value))
            ELSE ReOk(<<re_ch.lparen, re_ch.question, re_ch.i, re_ch.colon>>
                      \o ReEscape(e.value) \o <<re_ch.rparen>>)
      [] e.t = "Charset" ->
            ReOk(<<re_ch.lbracket>>
                 \o ReJoin(<<>>, [i \in 1..Len(e.groups) |-> ReOk(GroupToPythonRe(e.groups[i]))],
                           1).re
                 \o <<re_ch.rbracket>>)
      [] OTHER -> ReErr

-----------------------------------------------------------------------------
(* The state machine of the optimizer *)

\* most groups of a drawn Charset
MaxGroups == 2

\* the characters the drawn groups are made of: A, B, C
GroupChars == ord.A..ord.C

\* every Char and every valid CharRange over GroupChars
Groups ==
    {Char(c) : c \in GroupChars}
    \cup {CharRange(r[1], r[2]) : r \in {x \in GroupChars \X GroupChars : x[1] < x[2]}}

RECURSIVE GroupSeqs(_)
\* the group tuples of 1 to n groups, in any order, overlapping or not
GroupSeqs(n) ==
    IF n = 1 THEN {<<g>> : g \in Groups}
    ELSE LET shorter == GroupSeqs(n - 1)
         IN  shorter \cup {Append(gs, g) : gs \in shorter, g \in Groups}

\* the base and diff charsets of test_coalesce_charsets and test_optimizer
DiffExamples ==
    LET az == <<CharRange(97, 122)>>
        r(a, z) == CharRange(a, z)
    IN  {<<az, <<Char(109)>>>>,
         <<az, <<r(102, 109)>>>>,
         <<<<r(102, 109)>>, az>>,
         <<<<r(100, 102)>>, az>>,
         <<az, <<Char(100), Char(101), Char(102)>>>>,
         <<<<r(97, 102)>>, <<Char(100), Char(101), Char(102)>>>>,
         <<<<Char(97), Char(98), Char(99)>>, <<Char(100), Char(101), Char(102)>>>>,
         <<<<r(97, 102)>>, <<r(117, 122)>>>>,
         <<<<r(117, 122)>>, <<r(97, 102)>>>>,
         <<<<r(97, 102)>>, <<r(100, 122)>>>>,
         <<<<r(102, 122)>>, <<r(97, 109)>>>>,
         <<az, <<r(112, 116)>>>>,
         <<<<r(98, 103), r(106, 114), r(116, 119), r(121, 122)>>,
           <<r(97, 99), r(102, 104), r(108, 120)>>>>}

\* most alternatives of a drawn Alt
MaxAlts == 3

\* the alternatives of the drawn Alts: leaves the optimizer leaves as they are,
\* a plain Charset, Charsets that carry the tag of a token or ignored rule
\* inlined there, and the String that separates the charsets of
\* test_coalesce_charsets
AltLeaves ==
    {Charset(<<Char(ord.A)>>),
     WithMeta(Charset(<<Char(ord.B)>>), {"token"}),
     WithMeta(Charset(<<CharRange(ord.A, ord.C)>>), {"ignore"}),
     strAB}

RECURSIVE AltSeqs(_)
\* the tuples of 2 to n alternatives
AltSeqs(n) ==
    IF n < 2 THEN {}
    ELSE IF n = 2 THEN {<<a, b>> : a \in AltLeaves, b \in AltLeaves}
    ELSE LET shorter == AltSeqs(n - 1)
         IN  shorter \cup {Append(es, e) : es \in {x \in shorter : Len(x) = n - 1},
                                          e \in AltLeaves}

\* the Strings of test_string_to_charset: a letter of either case and "/",
\* plain, flagged i and flagged s, and Strings of two characters
PromotedStrings ==
    {WithMeta(String(<<c>>), m) : c \in {ord.A, ord.b, 47}, m \in {{}, {"i"}, {"s"}}}
    \cup {strAB, WithMeta(String(<<ord.a, ord.b>>), {"i"})}

\* s = [base] - [diff]
DiffRules(base, diff) == <<Rule(nm.s, Diff(Charset(base), Charset(diff)))>>

\* rule maps with references between rules, as test_inline_rules has them, with
\* a token rule (D), an ignored rule (_sep), recursive rules and a chain of
\* three rules, before the naming conventions have tagged them
InlineRuleSets ==
    LET ab == AltCreate(<<strA, strB>>)
    IN  {<<Rule(nm.t, ab), Rule(nm.s, CatCreate(<<Symbol(nm.t), Symbol(nm.t)>>))>>,
         <<Rule(nm.s, CatCreate(<<Symbol(nm.t), Symbol(nm.t)>>)), Rule(nm.t, ab)>>,
         <<Rule(nm.D, AltCreate(<<strAA, strB>>)),
           Rule(nm.s, CatCreate(<<Symbol(nm.D), Symbol(nm.D)>>))>>,
         <<Rule(nm.s, AltCreate(<<CatCreate(<<strA, symS>>), strB>>))>>,
         <<Rule(nm.s, AltCreate(<<CatCreate(<<Symbol(nm.t), symS>>), Symbol(nm.n)>>)),
           Rule(nm.t, strA), Rule(nm.n, strB)>>,
         <<Rule(nm.s, CatCreate(<<Symbol(nm.t), strB>>)),
           Rule(nm.t, CatCreate(<<Symbol(nm.n), strA>>)),
           Rule(nm.n, strAB)>>,
         <<Rule(nm.s, RepeatCreate(CatCreate(<<Symbol(nm.sep), Symbol(nm.t)>>), 1, None)),
           Rule(nm.sep, String(<<32>>)),
           Rule(nm.t, Diff(ab, strB))>>,
         \* mutually recursive rules, in both orders
         <<Rule(nm.s, CatCreate(<<Symbol(nm.t), strA>>)),
           Rule(nm.t, AltCreate(<<CatCreate(<<strB, symS>>), strA>>))>>,
         <<Rule(nm.t, AltCreate(<<CatCreate(<<strB, symS>>), strA>>)),
           Rule(nm.s, CatCreate(<<Symbol(nm.t), strA>>))>>}

\* the rule map and the method map an optimizer call gets: charset differences
\* without visitor, and the rule sets above, tagged, with every set of rules
\* the visitor may have a method for
\* the operands and the repetitions the regex writer is given
RegexOperands ==
    {strA, strAB, WithMeta(String(<<ord.a, ord.b>>), {"i"}), String(<<re_ch.hyphen>>),
     Charset(<<CharRange(ord.A, ord.C)>>), Charset(<<Char(re_ch.hyphen), Char(ord.A)>>),
     Cat(<<strA, Charset(<<Char(ord.B)>>)>>), Alt(<<strAB, strA>>),
     Cat(<<Alt(<<strA, strB>>), strAB>>), Alt(<<Cat(<<strA, strB>>), strAB>>),
     RepeatCreate(strA, 0, None), RepeatCreate(strAB, 0, 1), RepeatCreate(strA, 2, 2)}

RegexExprs ==
    RegexOperands \cup
    {RepeatCreate(e, b[1], b[2]) :
        e \in RegexOperands,
        b \in {<<0, None>>, <<0, 1>>, <<1, None>>, <<2, 2>>, <<0, 2>>, <<2, None>>, <<1, 2>>}}

OptInit ==
    /\ \/ \E base \in GroupSeqs(MaxGroups), diff \in GroupSeqs(MaxGroups) :
             rule_map = DiffRules(base, diff) /\ method_map = <<>>
       \/ \E ex \in DiffExamples :
             rule_map = DiffRules(ex[1], ex[2]) /\ method_map = <<>>
       \/ \E str \in PromotedStrings :
             rule_map = <<Rule(nm.s, str)>> /\ method_map = <<>>
       \/ \E es \in AltSeqs(MaxAlts) :
             rule_map = <<Rule(nm.s, Alt(es))>> /\ method_map = <<>>
       \/ \E e \in RegexExprs :
             rule_map = <<Rule(nm.s, e)>> /\ method_map = <<>>
       \/ \E rules \in InlineRuleSets :
             /\ rule_map = TagRules(rules)
             /\ \E has_visitor \in SUBSET RuleNames(rules) :
                   method_map = [n \in has_visitor |-> "opaque"]
    /\ text = <<>>
    /\ pc = "ready"
    /\ out = [op |-> "none"]
    /\ runtime_cache = <<>>
    /\ iters = <<>>
    /\ jobs = <<>>

\* the Diff nodes of the rule map whose two sides are Charsets
CharsetDiffs(rm) ==
    {e \in RuleExprs(rm) : e.t = "Diff" /\ e.base.t = "Charset" /\ e.diff.t = "Charset"}

\* subtract_groups(g1, g2) on the groups of a Diff of two Charsets
SubtractCharsets ==
    /\ pc = "ready"
    /\ \E e \in CharsetDiffs(rule_map) :
        out' = [op |-> "subtract", base |-> e.base.groups, diff |-> e.diff.groups,
                res |-> SubtractGroups(e.base.groups, e.diff.groups)]
    /\ pc' = "subtract"
    /\ UNCHANGED <<rule_map, method_map, text, runtime_cache, iters, jobs>>

\* the function of coalesce_charsets on a Diff of two Charsets
CoalesceCharsets ==
    /\ pc = "ready"
    /\ \E e \in CharsetDiffs(rule_map) :
        out' = [op |-> "coalesce", base |-> e.base.groups, diff |-> e.diff.groups,
                res |-> CoalesceDiff(e.base, e.diff)]
    /\ pc' = "coalesce"
    /\ UNCHANGED <<rule_map, method_map, text, runtime_cache, iters, jobs>>

\* new_rules = inline_rules(rule_map, method_map)
InlineRules ==
    /\ pc = "ready"
    /\ LET r == inline_rules(rule_map, DOMAIN method_map)
       IN  out' = [op |-> "inline", before |-> rule_map, ok |-> r.ok,
                   rule_map |-> r.rule_map]
    /\ pc' = "inline"
    /\ UNCHANGED <<rule_map, method_map, text, runtime_cache, iters, jobs>>

\* the Alt nodes of the rule map whose children are leaves that optimize_expr
\* and the function of coalesce_charsets return as they are
LeafAlts(rm) ==
    {e \in RuleExprs(rm) :
        /\ e.t = "Alt"
        /\ \A i \in 1..Len(e.exprs) :
              \/ e.exprs[i].t = "Charset"
              \/ e.exprs[i].t = "String" /\ Len(e.exprs[i].value) > 1}

\* the Alt case of coalesce_charsets and of optimize on an Alt of leaves
CoalesceAlts ==
    /\ pc = "ready"
    /\ \E e \in LeafAlts(rule_map) :
        out' = [op |-> "merge", exprs |-> e.exprs,
                coalesce |-> CoalesceAlt(e.exprs),
                optimize |-> AltCreate(MergeCharsets(e.exprs, 1, <<>>))]
    /\ pc' = "merge"
    /\ UNCHANGED <<rule_map, method_map, text, runtime_cache, iters, jobs>>

\* string_to_charset and the String case of optimize on a String of the rule map
PromoteStrings ==
    /\ pc = "ready"
    /\ \E e \in {x \in RuleExprs(rule_map) : x.t = "String"} :
        out' = [op |-> "promote", expr |-> e,
                string_to_charset |-> StringToCharset(e),
                optimize |-> OptimizeExpr(e, [rm |-> rule_map, seen |-> {}, visited |-> {}],
                                          {}).e]
    /\ pc' = "promote"
    /\ UNCHANGED <<rule_map, method_map, text, runtime_cache, iters, jobs>>

\* to_python_re(expr) of an expression of the rule map
RenderRegex ==
    /\ pc = "ready"
    /\ \E e \in RuleExprs(rule_map) :
        out' = [op |-> "to_python_re", expr |-> e, res |-> to_python_re(e)]
    /\ pc' = "regex"
    /\ UNCHANGED <<rule_map, method_map, text, runtime_cache, iters, jobs>>

OptNext ==
    \/ SubtractCharsets
    \/ CoalesceCharsets
    \/ CoalesceAlts
    \/ PromoteStrings
    \/ RenderRegex
    \/ InlineRules
    \/ OptimizeRuleMap

OptSpec == OptInit /\ [][OptNext]_vars

-----------------------------------------------------------------------------
(* Claims *)

\* the exception-free endings of Parser.parse: it returned, or found no match
CleanRun(res) == res.raised \in {"none", "ParseError"}

\* the end offsets of the solutions list(parser.parse(txt, start, offset)) holds
EndOffsets(res) == {res.items[i][2] : i \in 1..Len(res.items)}

(* C1: for every rule map that builds and every text, parsing from a start rule
   with the optimized rule map yields the same set of successful end offsets as
   parsing with the unoptimized rule map. Stated for the runs in which optimize
   returned and neither parse ended in an exception other than "no match". *)
C1_OptimizedSameEndOffsets ==
    (pc = "optimize" /\ out.ok) =>
        \A start \in RuleNames(out.before), offset \in 0..Len(text) :
            LET plain == ParserParse(out.before, method_map, text, start, offset, FALSE)
                optimized == ParserParse(out.rule_map, method_map, text, start, offset, FALSE)
            IN  (CleanRun(plain) /\ CleanRun(optimized)) =>
                    EndOffsets(plain) = EndOffsets(optimized)

\* the job the Match action runs its expression on
MatchJob == Job(rule_map, method_map, text, -1)

\* what the consumer of a generator observes: the states it yields, in order, and
\* the exception that ended it ("none": it was exhausted)
Seen(tr) == [ys |-> Yields(tr), err |-> IF Aborted(tr) THEN tr[Len(tr)].err ELSE "none"]

\* the solutions of child i of an alternation matched from state st
AltChild(j, st, exprs, kw, i) ==
    Seen(ParseExpr(j, st, exprs[i], kw, <<Frame("alt", st)>>))

RECURSIVE AltInOrder(_, _, _, _, _)
\* the children i.. of an alternation, each matched from st: all solutions of a
\* child before any solution of a later child, up to the first child that raises
AltInOrder(j, st, exprs, kw, i) ==
    IF i > Len(exprs) THEN [ys |-> <<>>, err |-> "none"]
    ELSE LET c == AltChild(j, st, exprs, kw, i)
         IN  IF c.err # "none" THEN c
             ELSE LET rest == AltInOrder(j, st, exprs, kw, i + 1)
                  IN  [ys |-> c.ys \o rest.ys, err |-> rest.err]

(* C2: an Alt matched at a state tries every child at that same state (same
   offset, same results) and yields all solutions of child i before any
   solution of child j for i < j; so the first solution, the one first_parse
   takes, is the first solution of the earliest child that has one. *)
C2_AltYieldsChildrenInOrder ==
    (pc = "match" /\ out.expr.t = "Alt") =>
        LET exprs == out.expr.exprs
            seen == Seen(out.trace)
            has == {i \in 1..Len(exprs) :
                        AltChild(MatchJob, out.st, exprs, out.kw, i).ys # <<>>}
        IN  /\ seen = AltInOrder(MatchJob, out.st, exprs, out.kw, 1)
            /\ seen.ys # <<>> =>
                   \E k \in has :
                       /\ \A i \in has : k <= i
                       /\ seen.ys[1] = AltChild(MatchJob, out.st, exprs, out.kw, k).ys[1]

\* an alternation two of whose children have solutions, with different end offsets
C2_Witness ==
    /\ pc = "match" /\ out.expr.t = "Alt"
    /\ \E i, k \in 1..Len(out.expr.exprs) :
        /\ i < k
        /\ AltChild(MatchJob, out.st, out.expr.exprs, out.kw, i).ys # <<>>
        /\ AltChild(MatchJob, out.st, out.expr.exprs, out.kw, k).ys # <<>>
        /\ AltChild(MatchJob, out.st, out.expr.exprs, out.kw, i).ys[1].offset
               # AltChild(MatchJob, out.st, out.expr.exprs, out.kw, k).ys[1].offset
    /\ Len(Yields(out.trace)) >= 2
    /\ out.st.results # <<>>

RECURSIVE AmbiguousTrees(_)
\* the derivations of "A" * n from s = ("A" s) | ("AA" s) | ("A" EOF), depth first:
\* alternatives in declared order, and for each head all derivations of the tail
AmbiguousTrees(n) ==
    IF n <= 0 THEN <<>>
    ELSE LET one == AmbiguousTrees(n - 1)
             two == AmbiguousTrees(n - 2)
         IN  [i \in 1..Len(one) |-> NodeVal(nm.s, <<StrVal(<<ord.A>>), one[i]>>)]
             \o [i \in 1..Len(two) |-> NodeVal(nm.s, <<StrVal(<<ord.A, ord.A>>), two[i]>>)]
             \o (IF n = 1 THEN <<NodeVal(nm.s, <<StrVal(<<ord.A>>)>>)>> ELSE <<>>)

(* C3: parse(text) yields every derivation of the text from the start rule
   exactly once, in depth-first order: for s = ("A" s) | ("AA" s) | ("A" EOF)
   on a text of n >= 1 characters "A" it yields exactly the derivations of the
   segmentations of the text into "A" and "AA" that end in "A", in that order
   (one for "A", two for "AAA": A.A.A then AA.A), each ending at offset n. *)
C3_AmbiguousParseEnumeratesAll ==
    (/\ pc = "parse"
     /\ rule_map = <<Rule(nm.s, ambiguousEof)>>
     /\ out.offset = 0
     /\ text # <<>>
     /\ \A i \in 1..Len(text) : text[i] = ord.A) =>
        LET trees == AmbiguousTrees(Len(text))
        IN  /\ out.res.raised = "none"
            /\ out.res.items = [i \in 1..Len(trees) |-> <<<<trees[i]>>, Len(text)>>]

\* the rule body of the symbol the Match action matched, run on a fresh result
\* list in scope kw
BodySeen(kw) ==
    Seen(ParseExpr(MatchJob, State(out.st.offset, <<>>), Lookup(rule_map, out.expr.name),
                   kw, <<Frame("symbol", out.st)>>))

IgnoredSymbol == out.kw.ign \/ out.expr.name[1] = ord.underscore
TokenSymbol == ~IgnoredSymbol /\ (out.kw.tok \/ IsUpper(out.expr.name[1]))

\* the string a token's body collected, passed through visit_<name> when bound
TokenValue(name, args) ==
    IF name \in DOMAIN method_map
    THEN CallMethod(method_map[name], name, <<StrVal(Join(args, 1, Len(args)))>>).val
    ELSE StrVal(Join(args, 1, Len(args)))

(* C4 (amended): matching a Symbol whose rule is ignored (name starts with '_',
   or reached inside an ignored scope) yields only states whose results equal
   the caller's results unchanged; matching a Symbol whose rule is a token
   (first character uppercase, or reached inside a token scope) appends exactly
   one value per body solution: the concatenation in match order of the strings
   its body collected, passed through the rule's visitor method when one is
   bound to it; with no visitor method and no ignored rule in the grammar that
   concatenation is the text the token consumed. INT = (digit | _sep)+ on
   "1 234_567" gives "1234567". *)
C4_IgnoredAndTokenResults ==
    /\ (pc = "match" /\ out.expr.t = "Symbol" /\ IgnoredSymbol) =>
           \A i \in 1..Len(Yields(out.trace)) :
               Yields(out.trace)[i].results = out.st.results
    /\ (pc = "match" /\ out.expr.t = "Symbol" /\ TokenSymbol) =>
           LET ys == Yields(out.trace)
               body == BodySeen([ign |-> FALSE, tok |-> TRUE]).ys
           IN  /\ Len(ys) <= Len(body)
               /\ \A i \in 1..Len(ys) :
                      /\ ys[i].offset = body[i].offset
                      /\ AllStr(body[i].results)
                      /\ ys[i].results
                             = Append(out.st.results,
                                      TokenValue(out.expr.name, body[i].results))
                      /\ (/\ DOMAIN method_map = {}
                          /\ \A n \in RuleNames(rule_map) : n[1] # ord.underscore) =>
                             Join(body[i].results, 1, Len(body[i].results))
                                 = Slice(text, out.st.offset, ys[i].offset)
    /\ (pc = "parse" /\ rule_map = integerRules /\ text = integerText
            /\ out.start = nm.INT /\ out.offset = 0) =>
           /\ out.res.raised = "none"
           /\ out.res.items[1] = <<<<StrVal(<<49, 50, 51, 52, 53, 54, 55>>)>>, 9>>

\* a token rule with a bound visitor method has matched, and so has an ignored rule
\* called with results already collected
C4_Witness ==
    /\ pc = "match" /\ out.expr.t = "Symbol"
    /\ Yields(out.trace) # <<>>
    /\ out.st.results # <<>>
    /\ \/ TokenSymbol /\ out.expr.name \in DOMAIN method_map
                     /\ method_map[out.expr.name] = "opaque"
       \/ IgnoredSymbol /\ ~out.kw.ign

(* C4 as stated: a token rule appends exactly one string. *)
C4_TokenAppendsString ==
    (pc = "match" /\ out.expr.t = "Symbol" /\ TokenSymbol) =>
        \A i \in 1..Len(Yields(out.trace)) :
            LET r == Yields(out.trace)[i].results
            IN  /\ Len(r) = Len(out.st.results) + 1
                /\ r[Len(r)].k = "str"

PlainSymbol == ~IgnoredSymbol /\ ~out.kw.tok /\ ~IsUpper(out.expr.name[1])

\* visit_<name> applied to args when the method is bound, else Visitor.visit: (name, *args)
PlainValue(name, args) ==
    IF name \in DOMAIN method_map THEN CallMethod(method_map[name], name, args).val
    ELSE NodeVal(name, args)

(* C5: matching a non-ignored, non-token Symbol(n) from a caller state with
   results R runs the rule body on a fresh empty result list and, for each body
   solution with child results args, yields results R + [v] with exactly one
   new value v: visit_n applied to args when a visitor method is bound to n, otherwise
   the tuple (n, *args) in match order; s = "A" s | "!" on "AA!" gives
   ("s", "A", ("s", "A", ("s", "!"))). *)
C5_SymbolAppendsOneValue ==
    /\ (pc = "match" /\ out.expr.t = "Symbol" /\ PlainSymbol) =>
           LET seen == Seen(out.trace)
               body == BodySeen([ign |-> FALSE, tok |-> FALSE])
           IN  /\ Len(seen.ys) <= Len(body.ys)
               /\ seen.err = "none" => Len(seen.ys) = Len(body.ys)
               /\ \A i \in 1..Len(seen.ys) :
                      /\ seen.ys[i].offset = body.ys[i].offset
                      /\ seen.ys[i].results
                             = out.st.results
                                   \o <<PlainValue(out.expr.name, body.ys[i].results)>>
    /\ (pc = "first_parse" /\ rule_map = bangRules /\ out.offset = 0
            /\ text = <<ord.A, ord.A, ord.bang>>) =>
           /\ out.res.raised = "none"
           /\ out.res.items
                  = <<<<<<NodeVal(nm.s, <<StrVal(<<ord.A>>),
                            NodeVal(nm.s, <<StrVal(<<ord.A>>),
                              NodeVal(nm.s, <<StrVal(<<ord.bang>>)>>)>>)>>)>>, 3>>>>

\* a rule with a bound visitor method and a rule without one have each matched from
\* a caller that had already collected a result, the body having collected some
C5_Witness ==
    /\ pc = "match" /\ out.expr.t = "Symbol" /\ PlainSymbol
    /\ out.st.results # <<>>
    /\ \E i \in 1..Len(Yields(out.trace)) : Len(Yields(out.trace)[i].results) = 2
    /\ \E i \in 1..Len(BodySeen([ign |-> FALSE, tok |-> FALSE]).ys) :
           BodySeen([ign |-> FALSE, tok |-> FALSE]).ys[i].results # <<>>
    /\ out.expr.name \in DOMAIN method_map

RECURSIVE RepeatCounted(_, _, _, _, _, _, _)
RECURSIVE RepeatEach(_, _, _, _, _, _, _, _)
\* what is reached through the body solutions ys[i], ys[i + 1], ..., in order, up to
\* the first exception
RepeatEach(j, ys, i, e, k, bounds, kw, frames) ==
    IF i > Len(ys) THEN [ys |-> <<>>, err |-> "none"]
    ELSE LET c == RepeatCounted(j, ys[i], e, k, bounds, kw, frames)
         IN  IF c.err # "none" THEN c
             ELSE LET rest == RepeatEach(j, ys, i + 1, e, k, bounds, kw, frames)
                  IN  [ys |-> c.ys \o rest.ys, err |-> rest.err]

\* the states reached from st, itself reached by k consecutive matches of e, by
\* k' >= k consecutive matches with bounds.min <= k' <= bounds.max: depth first,
\* every state that extends st by further matches before st itself
RepeatCounted(j, st, e, k, bounds, kw, stk) ==
    LET frames == Append(stk, Frame("repeat", st))
        body == IF bounds.max = None \/ k < bounds.max
                THEN Seen(ParseExpr(j, st, e, kw, frames))
                ELSE [ys |-> <<>>, err |-> "none"]
        deeper == RepeatEach(j, body.ys, 1, e, k + 1, bounds, kw, frames)
    IN  IF deeper.err # "none" THEN deeper
        ELSE IF body.err # "none" THEN [ys |-> deeper.ys, err |-> body.err]
        ELSE [ys |-> deeper.ys \o (IF k >= bounds.min THEN <<st>> ELSE <<>>),
              err |-> "none"]

\* a body that matches exactly one character whenever it matches
OneCharBody(e) == e.t = "Charset" \/ (e.t = "String" /\ Len(e.value) = 1)

(* C6: the solutions of Repeat(e, min, max) at a state are exactly the states
   reached by k consecutive matches of e with min <= k <= max (no upper bound
   when max is unbounded), never fewer than min nor more than max; when
   min = 0 they include the unchanged starting state, also at end of input; a
   solution with more repetitions is yielded before the shorter solution it
   extends. *)
C6_RepeatCountsWithinBounds ==
    (pc = "match" /\ out.expr.t = "Repeat") =>
        LET seen == Seen(out.trace)
            bounds == [min |-> out.expr.min, max |-> out.expr.max]
        IN  /\ seen = RepeatCounted(MatchJob, out.st, out.expr.expr, 0, bounds, out.kw, <<>>)
            /\ (bounds.min = 0 /\ seen.err = "none") =>
                   /\ seen.ys # <<>>
                   /\ seen.ys[Len(seen.ys)] = out.st
            /\ OneCharBody(out.expr.expr) =>
                   /\ \A i \in 1..Len(seen.ys) :
                          /\ bounds.min <= seen.ys[i].offset - out.st.offset
                          /\ bounds.max # None =>
                                 seen.ys[i].offset - out.st.offset <= bounds.max
                   /\ \A i, k \in 1..Len(seen.ys) :
                          i < k => seen.ys[i].offset > seen.ys[k].offset

\* a repetition with min >= 1 and a finite max has yielded solutions of two
\* different counts, and could have matched once more than max allows
C6_Witness ==
    /\ pc = "match" /\ out.expr.t = "Repeat"
    /\ out.expr.min >= 1 /\ out.expr.max # None
    /\ Len(Yields(out.trace)) >= 2
    /\ OneCharBody(out.expr.expr)
    /\ Yields(out.trace)[1].offset = out.st.offset + out.expr.max
    /\ Yields(ParseExpr(MatchJob, Yields(out.trace)[1], out.expr.expr, out.kw, <<>>)) # <<>>

\* a repetition with min = 0 tried at the end of the input
C6_WitnessAtEnd ==
    /\ pc = "match" /\ out.expr.t = "Repeat" /\ out.expr.min = 0
    /\ out.st.offset = Len(text) /\ Len(text) > 0
    /\ Yields(out.trace) = <<out.st>>

\* the operands of the Diff the Match action matched, each run from the original state
DiffBase == Seen(ParseExpr(MatchJob, out.st, out.expr.base, out.kw, <<Frame("diff", out.st)>>))
DiffDiff == Seen(ParseExpr(MatchJob, out.st, out.expr.diff, out.kw, <<Frame("diff", out.st)>>))

(* C7: Diff(base, diff) at a state yields exactly the solutions of base at that
   state, in base order, when diff has no solution starting at the same
   original offset, and yields nothing when diff has at least one solution
   there, whatever length diff or base consumed; [a-z] minus [A m w-z] accepts
   a, l, n, v and rejects A, m, x, z. *)
C7_DiffKeepsBaseUnlessDiffMatches ==
    /\ (pc = "match" /\ out.expr.t = "Diff") =>
           LET seen == Seen(out.trace)
           IN  /\ DiffDiff.ys # <<>> => seen = [ys |-> <<>>, err |-> DiffBase.err]
               /\ (DiffDiff.ys = <<>> /\ DiffDiff.err = "none") => seen = DiffBase
               \* diff raises before it has a solution: the first base solution raises
               /\ (DiffDiff.ys = <<>> /\ DiffDiff.err # "none") =>
                      seen = IF DiffBase.ys = <<>> THEN DiffBase
                             ELSE [ys |-> <<>>, err |-> DiffDiff.err]
    /\ (pc = "parse" /\ rule_map = charsetDiffRules /\ out.offset = 0 /\ Len(text) = 1) =>
           /\ text[1] \in {97, 108, 110, 118} =>
                  /\ out.res.raised = "none"
                  /\ out.res.items = <<<<<<NodeVal(nm.s, <<StrVal(text)>>)>>, 1>>>>
           /\ text[1] \in {65, 109, 120, 122} =>
                  out.res.raised \in {"ParseError", "ExceptionGroup"} /\ out.res.items = <<>>

\* a base with a solution longer than the one diff has at the same offset: the
\* base solutions are all dropped
C7_Witness ==
    /\ pc = "match" /\ out.expr.t = "Diff"
    /\ DiffBase.ys # <<>> /\ DiffDiff.ys # <<>>
    /\ DiffBase.ys[1].offset > DiffDiff.ys[1].offset
    /\ Yields(out.trace) = <<>>

\* a base with two solutions kept, diff having none
C7_WitnessKept ==
    /\ pc = "match" /\ out.expr.t = "Diff"
    /\ Len(DiffBase.ys) >= 2 /\ DiffDiff.ys = <<>>
    /\ Yields(out.trace) = DiffBase.ys

(* C8: EndOfFile, dispatched by the parser like any other expression variant,
   yields a solution at a state iff that state's offset equals len(text); at
   every offset < len(text) it yields none. *)
C8_EndOfFileOnlyAtEnd ==
    (pc = "match" /\ out.expr.t = "EndOfFile") =>
        /\ ~Aborted(out.trace)
        /\ Yields(out.trace) # <<>> <=> out.st.offset = Len(text)

\* whether String(v) with metadata meta matches the text at offset o
StringMatches(v, meta, o) ==
    IF "i" \in meta THEN LowerStr(Slice(text, o, o + Len(v))) = LowerStr(v)
    ELSE Slice(text, o, o + Len(v)) = v

(* C9: String(v) matches at offset o iff text[o:o+|v|] equals v, compared on
   lowercased forms when the node's metadata flags i and exactly otherwise; it
   then yields exactly one solution with offset o+|v|, with v appended to the
   results unless the scope is ignore, in which case the results are
   unchanged. *)
C9_StringMatchesByCaseFlag ==
    (pc = "match" /\ out.expr.t = "String") =>
        Seen(out.trace)
            = [ys |-> IF StringMatches(out.expr.value, out.expr.meta, out.st.offset)
                      THEN <<State(out.st.offset + Len(out.expr.value),
                                   IF out.kw.ign THEN out.st.results
                                   ELSE Append(out.st.results, StrVal(out.expr.value)))>>
                      ELSE <<>>,
               err |-> "none"]

\* ---- C10 ----
\* the job's generator for the call recorded in out
CallTrace == JobParse(MatchJob, out.start, out.offset)

NoMatch == ParseError(out.offset, [kind |-> "no match"], <<>>)

C10_WitnessGroup ==
    /\ pc = "parse"
    /\ out.debug
    /\ out.res.raised = "ExceptionGroup"
    /\ Len(out.res.excs) > 1

\* ---- C11 ----
\* the rerun of the job with the debug hook armed at the furthest offset
DebugTrace ==
    JobParse(Job(rule_map, method_map, text, MaxV(CallTrace, Len(CallTrace))),
             out.start, out.offset)

\* C11: whenever first_parse finds no solution with diagnostics enabled, it
\* raises a parse-failure error carrying a non-empty list of candidate
\* sub-failures, each located at the furthest offset reached during the failed
\* parse and each with its context path; the candidates are listed in the
\* order the failing leaves were tried.
C11_FirstParseRaisesCandidates ==
    (pc = "first_parse" /\ out.debug /\ ~Aborted(CallTrace)
        /\ Yields(CallTrace) = <<>>) =>
        LET tried == DebugStacks(DebugTrace)
        IN  /\ out.res.raised = "ExceptionGroup"
            /\ out.res.excs # <<>>
            /\ Len(out.res.excs) = Len(tried)
            /\ \A i \in 1..Len(out.res.excs) :
                  /\ out.res.excs[i].offset = MaxV(CallTrace, Len(CallTrace))
                  /\ out.res.excs[i].context # <<>>
                  /\ out.res.excs[i].msg = tried[i].msg
                  /\ out.res.excs[i].context = tried[i].stack

\* ---- C12 ----
\* the offsets of the newline characters of text[0:o]
NewlinesBefore(o) == {i \in 0..(o - 1) : text[i + 1] = 10}

\* start index of the line that holds offset o
LineStartOf(o) ==
    IF NewlinesBefore(o) = {} THEN 0
    ELSE 1 + CHOOSE i \in NewlinesBefore(o) : \A k \in NewlinesBefore(o) : k <= i

\* the text of the line that holds offset o, without its newline
LineOf(o) ==
    LET ends == {i \in o..(Len(text) - 1) : text[i + 1] = 10}
        stop == IF ends = {} THEN Len(text) ELSE CHOOSE i \in ends : \A k \in ends : i <= k
    IN  SubSeq(text, LineStartOf(o) + 1, stop)

\* C12: a ParseError at offset o renders "At L:C (o): msg", then the text of
\* the line containing o and a caret under column C, where L = 1 + the number
\* of newline characters in text[0:o] and C = o - (start of that line) + 1 >= 1,
\* for every o in 0..len(text), also when text[o] is itself a newline.
C12_ErrorPointsAtLineAndColumn ==
    pc = "str" =>
        LET o == out.offset
            L == 1 + Cardinality(NewlinesBefore(o))
            C == o - LineStartOf(o) + 1
        IN  /\ out.res.offset = o
            /\ out.res.line_number = L
            /\ out.res.column = C
            /\ out.res.column >= 1
            /\ out.res.line = (IF LineOf(o) = <<>> THEN <<>> ELSE Spaces(4) \o LineOf(o))
            /\ out.res.pointer = Spaces(4 + C - 1) \o <<94>>

\* ---- C13 ----
\* the Symbol nodes of the expressions of a rule map that name none of its rules
Dangling(rm) == {e \in RuleExprs(rm) : e.t = "Symbol" /\ e.name \notin RuleNames(rm)}

\* the rule map build_rule_map has assembled when it reaches its checks
MapAsBuilt == RuleMapLoop(out.grammar, 1, <<>>, <<>>, out.on_duplicate_rule).rule_map

\* the rules of the grammar as Parser reads them
ParserRules == [i \in 1..Len(out.grammar) |-> Rule(out.grammar[i].name, out.grammar[i].expr)]

\* a later rule repeats a name
RepeatsName == \E i, k \in 1..Len(out.grammar) : i < k /\ out.grammar[i].name = out.grammar[k].name

\* the build stops at a duplicate rule before it looks for undefined rules
FatalDuplicate ==
    /\ out.on_duplicate_rule = "error"
    /\ \E i, k \in 1..Len(out.grammar) :
          /\ i < k
          /\ out.grammar[i].name = out.grammar[k].name
          /\ ~out.grammar[k].is_additional_alt
          /\ ~out.grammar[k].is_additional_cat

\* C13 as stated: build fails with an undefined-rule error iff some Symbol
\* occurring in some rule's expression names no rule of the map; hence in every
\* runtime returned by build, also after the optimizer has run, every Symbol in
\* every rule-map expression is a key of the rule map.
C13_UndefinedRuleIffDangling ==
    /\ (pc = "from_grammar" /\ ~out.hit /\ out.on_duplicate_rule \in DUPLICATE_OPTIONS) =>
          (out.res.err = "Undefined rule(s)" <=> Dangling(MapAsBuilt) # {})
    /\ pc = "parser" =>
          (out.res.err = "Undefined rule(s)" <=> Dangling(ParserRules) # {})
    /\ (pc \in {"from_grammar", "parser"} /\ out.res.ok) => Dangling(out.res.rule_map) = {}

\* C13, amended: build fails with an undefined-rule error iff some Symbol
\* occurring in some expression of the rule map names no rule of the map and
\* the build has not already failed on a duplicate rule, which is reported
\* first (Runtime: policy error and a repeated name without an additional
\* flag; Parser: any repeated name); either way no runtime is returned for such
\* a grammar, so in every runtime returned by build, also after the optimizer
\* has run and also when it comes from the cache, every Symbol in every
\* rule-map expression is a key of the rule map.
C13_UndefinedRuleUnlessDuplicate ==
    /\ (pc = "from_grammar" /\ ~out.hit /\ out.on_duplicate_rule \in DUPLICATE_OPTIONS) =>
          /\ out.res.err = "Undefined rule(s)" <=>
                (Dangling(MapAsBuilt) # {} /\ ~FatalDuplicate)
          /\ Dangling(MapAsBuilt) # {} => ~out.res.ok
    /\ pc = "parser" =>
          /\ out.res.err = "Undefined rule(s)" <=>
                (Dangling(ParserRules) # {} /\ ~RepeatsName)
          /\ Dangling(ParserRules) # {} => ~out.res.ok
    /\ (pc \in {"from_grammar", "parser"} /\ out.res.ok) => Dangling(out.res.rule_map) = {}

\* a grammar with an undefined rule and no duplicate was refused
C13_Witness ==
    /\ pc = "from_grammar"
    /\ ~out.hit
    /\ Dangling(MapAsBuilt) # {}
    /\ ~FatalDuplicate
    /\ out.res.err = "Undefined rule(s)"

\* a runtime whose optimized rule map still holds a Symbol was returned
C13_WitnessReturned ==
    /\ pc = "from_grammar"
    /\ out.res.ok
    /\ \E e \in RuleExprs(out.res.rule_map) : e.t = "Symbol"

\* ---- C14 ----
RECURSIVE ClaimedRuleMap(_, _, _, _)
\* the rule map under the precedence C14 states: additional alt, additional cat,
\* overrides, overloads, otherwise the earlier definition is kept
ClaimedRuleMap(rules, i, rm, policy) ==
    IF i > Len(rules) THEN rm
    ELSE LET r == rules[i]
             next == IF r.name \notin RuleNames(rm) THEN Append(rm, Rule(r.name, r.expr))
                     ELSE IF r.is_additional_alt
                     THEN SetRule(rm, r.name, AltCreate(<<Lookup(rm, r.name), r.expr>>))
                     ELSE IF r.is_additional_cat
                     THEN SetRule(rm, r.name, CatCreate(<<Lookup(rm, r.name), r.expr>>))
                     ELSE IF policy = "overrides" THEN SetRule(rm, r.name, r.expr)
                     ELSE IF policy = "overloads"
                     THEN SetRule(rm, r.name, AltCreate(<<Lookup(rm, r.name), r.expr>>))
                     ELSE rm
         IN  ClaimedRuleMap(rules, i + 1, next, policy)

\* a later rule for a known name that neither a flag nor the policy merges
ReportedDuplicate ==
    /\ out.on_duplicate_rule \in BASE_OPTIONS
    /\ \E i, k \in 1..Len(out.grammar) :
          /\ i < k
          /\ out.grammar[i].name = out.grammar[k].name
          /\ ~out.grammar[k].is_additional_alt
          /\ ~out.grammar[k].is_additional_cat

\* C14: when build_rule_map meets a later rule for a name already in the map it
\* applies, in this order of precedence: is_additional_alt makes the entry
\* Alt(prev, new); is_additional_cat makes it Cat(prev, new); policy overrides
\* replaces the entry by new; policy overloads makes it Alt(prev, new);
\* otherwise the name is reported as a duplicate per policy, where error fails
\* the build and warn and ignore let it complete with the earlier definition kept.
C14_DuplicatePrecedence ==
    (pc = "from_grammar" /\ ~out.hit /\ out.on_duplicate_rule \in DUPLICATE_OPTIONS) =>
        /\ MapAsBuilt = ClaimedRuleMap(out.grammar, 1, <<>>, out.on_duplicate_rule)
        /\ (ReportedDuplicate /\ out.on_duplicate_rule = "error") =>
              out.res.err = "Duplicate rule(s)"
        /\ ~(ReportedDuplicate /\ out.on_duplicate_rule = "error") =>
              out.res.err # "Duplicate rule(s)"

\* ---- C15 ----
\* the names of the rules of the map the call has built, in order
BuiltNames == [i \in 1..Len(MapAsBuilt) |-> MapAsBuilt[i].name]

\* the rules for which the visitor has the method visit_<name, "-" as "_">
RulesWithMethod ==
    {BuiltNames[i] : i \in {k \in 1..Len(BuiltNames) :
                               ReplaceHyphens(BuiltNames[k]) \in out.visitor.methods}}

\* the visit_ methods of the visitor that no rule of the map names
UnboundMethods ==
    out.visitor.methods \ {ReplaceHyphens(BuiltNames[i]) : i \in 1..Len(BuiltNames)}

\* the call got as far as build_method_map
ReachedMethodMap ==
    /\ pc = "from_grammar"
    /\ ~out.hit
    /\ out.on_duplicate_rule \in DUPLICATE_OPTIONS
    /\ out.on_unused_visitor_methods \in BASE_OPTIONS
    /\ out.res.err \notin {"Duplicate rule(s)", "Undefined rule(s)"}

\* C15: build_method_map binds each rule name n to the visitor method
\* visit_<n with "-" replaced by "_"> for every rule whose visitor has that
\* method, also when two rule names map to the same method name, and binds
\* nothing to the other rules; visit_ methods that end up bound to no rule are
\* reported per on_unused_visitor_methods (error raises, warn and ignore
\* continue), and a rule without a method never causes an error.
C15_MethodsBoundByName ==
    ReachedMethodMap =>
        /\ out.res.err = "Unused visitor method(s)" <=>
              (UnboundMethods # {} /\ out.on_unused_visitor_methods = "error")
        /\ out.res.ok =>
              /\ DOMAIN out.res.method_map = RulesWithMethod
              /\ \A n \in DOMAIN out.res.method_map :
                    out.res.method_map[n] =
                        [visitor |-> out.visitor.id, method |-> ReplaceHyphens(n)]

\* ---- C17 ----
\* what an uncached build of the call's own arguments returns
UncachedBuild ==
    BuildRuntime(out.grammar, out.visitor, out.on_duplicate_rule,
                 out.on_unused_visitor_methods)

\* C17: after any sequence of Runtime.from_grammar calls with use_cache
\* enabled, the runtime a call returns equals the one an uncached build of that
\* call's arguments would return: its method map is bound to that call's
\* visitor and its rule map is built from that call's grammar (metadata
\* included) and policies; a cached runtime is reused only for the same
\* grammar and visitor.
C17_CachedEqualsUncached ==
    (pc = "from_grammar" /\ out.use_cache) =>
        /\ out.res = UncachedBuild
        /\ out.res.ok =>
              \A n \in DOMAIN out.res.method_map :
                  out.res.method_map[n].visitor = out.visitor.id

\* ---- C16 ----
\* what list(parser.parse(...)) gives for the arguments of a generator
Reference(it) == ParserParse(rule_map, method_map, text, it.start, it.offset, it.debug)

\* C16: on one Parser, what a generator of parse(text, start, offset) yields,
\* and how it ends, depends only on the grammar, the visitor, the text, start
\* and offset: whatever other generators of the same Parser were created,
\* advanced, interleaved or abandoned, the items it has yielded are the head of
\* the sequence a lone parse yields, a finished generator has yielded all of it
\* and ended the same way, and first_parse returns its first item.
C16_IteratorsAreIndependent ==
    /\ \A i \in 1..Len(iters) :
          LET it == iters[i]
              ref == Reference(it)
          IN  /\ Len(it.items) <= Len(ref.items)
              /\ it.items = SubSeq(ref.items, 1, Len(it.items))
              /\ it.status \in {"done", "raised"} =>
                    /\ it.items = ref.items
                    /\ it.raised = ref.raised
                    /\ it.excs = ref.excs
    /\ pc = "first_parse" =>
          out.res = ParserFirstParse(rule_map, method_map, text, out.start, out.offset,
                                     out.debug)

\* two generators are alive, the first was advanced, then the second ran to a
\* failure with the debug rerun, and the first has gone on to its end
C16_Witness ==
    /\ Len(iters) = 2
    /\ iters[1].status = "done"
    /\ Len(iters[1].items) > 1
    /\ iters[2].status = "raised"
    /\ iters[2].raised = "ExceptionGroup"
    /\ Len(jobs) = 2
    /\ iters[1].job # iters[2].job

\* first_parse from offset 2 of "<><<>>" returns offset 6 while a generator
\* started at offset 0 is alive
C16_WitnessFirstParse ==
    /\ pc = "first_parse"
    /\ text = nestedText
    /\ out.offset = 2
    /\ out.res.raised = "none"
    /\ out.res.items[1][2] = 6
    /\ \E i \in 1..Len(iters) : iters[i].status = "running"

\* ---- C18 ----
\* the characters a tuple of groups denotes
Denote(gs) ==
    UNION {IF gs[i].t = "Char" THEN {gs[i].char} ELSE gs[i].start..gs[i].end :
               i \in 1..Len(gs)}

\* a Char, or a CharRange with start < end
ValidGroup(g) == g.t = "Char" \/ (g.t = "CharRange" /\ g.start < g.end)

\* no character is in two groups of the tuple
Disjoint(gs) ==
    \A i, k \in 1..Len(gs) : i # k => Denote(<<gs[i]>>) \cap Denote(<<gs[k]>>) = {}

\* C18: for all charsets A and B, whatever their groups (Char or CharRange, in
\* any order, overlapping or not), the groups subtract_groups(A, B) returns
\* denote exactly the characters in A and not in B, and each is a Char or a
\* CharRange with start < end.
C18_SubtractIsSetDifference ==
    pc = "subtract" =>
        /\ Denote(out.res) = Denote(out.base) \ Denote(out.diff)
        /\ \A i \in 1..Len(out.res) : ValidGroup(out.res[i])

\* ---- C19 ----
\* the call was made on the one-rule map s = [A] - [B]
OnCharsetDiff == Len(out.before) = 1 /\ out.before[1].expr \in CharsetDiffs(out.before)

\* what the claim says of the rewriting of [base] - [diff] into e: the empty
\* expression when diff covers base, a Charset otherwise, and the groups the
\* spec lists for [a-z] - [m] and [a-z] - [f-m]
RewrittenAsClaimed(base, diff, e) ==
    /\ IF Denote(base) \subseteq Denote(diff) THEN e.t = "Empty" ELSE e.t = "Charset"
    /\ (base = <<CharRange(97, 122)>> /\ diff = <<Char(109)>>)
          => e = Charset(<<CharRange(97, 108), CharRange(110, 122)>>)
    /\ (base = <<CharRange(97, 122)>> /\ diff = <<CharRange(102, 109)>>)
          => e = Charset(<<CharRange(97, 101), CharRange(110, 122)>>)

\* C19: the optimizer rewrites Diff(Charset A, Charset B) without raising for
\* every A and B: [a-z] - [m] becomes [a-ln-z], [a-z] - [f-m] becomes [a-en-z],
\* and when B covers every character of A the result is the empty expression.
C19_CharsetDiffNeverRaises ==
    /\ (pc = "optimize" /\ OnCharsetDiff) =>
          /\ out.ok
          /\ RewrittenAsClaimed(out.before[1].expr.base.groups,
                                out.before[1].expr.diff.groups, out.rule_map[1].expr)
    /\ pc = "coalesce" =>
          /\ out.res.ok
          /\ RewrittenAsClaimed(out.base, out.diff, out.res.e)

\* ---- C20 ----
\* rule n has a visitor method and its right-hand side is neither token nor
\* ignore
VisitorCalled(rm, n) ==
    /\ n \in DOMAIN method_map
    /\ n \in RuleNames(rm)
    /\ ~is_token(Lookup(rm, n))
    /\ ~is_ignored(Lookup(rm, n))

\* C20: inlining replaces a Symbol(n) by rule n's expression only when n has no
\* visitor method or n's right-hand side is tagged token or ignore: a rule that
\* refers to another rule which has a visitor method and is neither token nor
\* ignore still holds Symbol(n) after inline_rules and after optimize, so the
\* visitor of n is still invoked when parsing through the new rule map.
C20_VisitorRulesStayReferenced ==
    (pc \in {"inline", "optimize"} /\ out.ok) =>
        \A i \in 1..Len(out.before) :
            \A n \in Symbols(out.before[i].expr) :
                (n # out.before[i].name /\ VisitorCalled(out.before, n))
                    => n \in Symbols(Lookup(out.rule_map, out.before[i].name))

\* ---- C21 ----
\* a Symbol(n) the claim lets stand in rule r after inlining: a reference of r
\* to itself, or to a rule that is visitor-bound or tagged token or ignore
MayRemain(rm, r, n) ==
    \/ n = r
    \/ n \in DOMAIN method_map
    \/ n \in RuleNames(rm) /\ (is_token(Lookup(rm, n)) \/ is_ignored(Lookup(rm, n)))

\* C21: inline_rules returns on every finite rule map, recursive ones included,
\* with a rule for every name, and afterwards the expression of each rule holds
\* no Symbol other than references to the rule itself, except Symbols whose
\* target rule is visitor-bound or tagged token or ignore, whatever the order
\* of the rules.
C21_InliningFixpoint ==
    pc = "inline" =>
        /\ out.ok
        /\ RuleNames(out.rule_map) = RuleNames(out.before)
        /\ \A i \in 1..Len(out.rule_map) :
              \A n \in Symbols(out.rule_map[i].expr) :
                  MayRemain(out.before, out.rule_map[i].name, n)

\* ---- C22 ----
\* C22: every optimizer transform leaves on the node it rewrites every metadata
\* entry of the source node, so token, ignore, i and s survive: after
\* inline_rules and after optimize the expression of each rule carries every
\* metadata entry the rule's expression had before.
C22_RewritesKeepMetadata ==
    (pc \in {"inline", "optimize"} /\ out.ok) =>
        \A i \in 1..Len(out.before) :
            out.before[i].expr.meta
                \subseteq Lookup(out.rule_map, out.before[i].name).meta

\* ---- C23 ----
\* C23: the optimizer transforms treat their input as immutable: after
\* optimize or inline_rules has returned, the rule map the caller passed holds
\* the same names bound to the same expressions, metadata included, as before
\* the call.
C23_InputRuleMapUnchanged ==
    pc \in {"inline", "optimize"} => rule_map = out.before

\* ---- C24 ----
\* the token and ignore tag states of two nodes are equal
SameTags(a, b) == is_token(a) = is_token(b) /\ is_ignored(a) = is_ignored(b)

RECURSIVE ClaimedMerge(_, _, _, _)
\* the alternatives the claim leaves: a Charset joins the Charset before it
\* when it is next to it and has the tag states of the one that opened the
\* run; origin is that one
ClaimedMerge(exprs, i, acc, origin) ==
    IF i > Len(exprs) THEN acc
    ELSE IF /\ acc # <<>>
            /\ acc[Len(acc)].t = "Charset"
            /\ exprs[i].t = "Charset"
            /\ SameTags(origin, exprs[i])
    THEN ClaimedMerge(exprs, i + 1,
             [acc EXCEPT ![Len(acc)] = Charset(@.groups \o exprs[i].groups)], origin)
    ELSE ClaimedMerge(exprs, i + 1, Append(acc, exprs[i]), exprs[i])

\* the alternatives of a rewritten Alt, without their metadata: an Alt that
\* collapsed to one alternative is that alternative
Alternatives(e) ==
    LET es == IF e.t = "Alt" THEN e.exprs ELSE <<e>>
    IN  [i \in 1..Len(es) |-> [es[i] EXCEPT !.meta = NoMeta]]

\* C24: coalescing merges two Charset children of an Alt into one Charset
\* holding the groups of both iff they are adjacent and their token and ignore
\* tag states are equal; charsets separated by another alternative or with
\* different tag states stay separate, and the order of the alternatives is
\* unchanged. Both coalesce_charsets and optimize do so.
C24_MergeAdjacentSameTags ==
    pc = "merge" =>
        LET claimed == Alternatives(Alt(ClaimedMerge(out.exprs, 1, <<>>, out.exprs[1])))
        IN  /\ Alternatives(out.coalesce) = claimed
            /\ Alternatives(out.optimize) = claimed

\* ---- C25 ----
\* what the claim says a String becomes: itself when longer than one
\* character, else a Charset of the character, or of its lowercase and
\* uppercase forms when it is case-insensitive and the two differ
Promoted(str, e) ==
    IF Len(str.value) # 1 THEN e = str
    ELSE LET c == str.value[1]
             chars == IF "i" \in str.meta THEN {Lower(c), Upper(c)} ELSE {c}
         IN  /\ e.t = "Charset"
             /\ Len(e.groups) = Cardinality(chars)
             /\ {e.groups[i] : i \in 1..Len(e.groups)} = {Char(x) : x \in chars}

\* C25: promotion rewrites every String of length 1 to a Charset and leaves
\* longer Strings unchanged; a case-sensitive one becomes the charset of that
\* character, a case-insensitive one the charset of its lowercase and
\* uppercase forms, or a single-element charset when the two coincide; both
\* string_to_charset and optimize do so.
C25_StringPromotion ==
    pc = "promote" =>
        /\ Promoted(out.expr, out.string_to_charset)
        /\ Promoted(out.expr, out.optimize)

\* ---- C26 ----
RECURSIVE Flattened(_)
\* every Alt and Cat of e has at least 2 children, no Alt has an Alt and no Cat
\* has a Cat as a direct child
Flattened(e) ==
    CASE e.t \in {"Alt", "Cat"} ->
            /\ Len(e.exprs) >= 2
            /\ \A i \in 1..Len(e.exprs) : e.exprs[i].t # e.t /\ Flattened(e.exprs[i])
      [] e.t = "Repeat" -> Flattened(e.expr)
      [] e.t = "Diff" -> Flattened(e.base) /\ Flattened(e.diff)
      [] OTHER -> TRUE

\* C26: in every rule-map expression the optimizer transforms produce from
\* flattened rules, as in every expression built by the create constructors,
\* every Alt and every Cat has at least 2 children, no Alt has an Alt as a
\* direct child and no Cat has a Cat as a direct child.
C26_AltCatFlattened ==
    /\ (pc \in {"inline", "optimize"} /\ out.ok) =>
          \A i \in 1..Len(out.rule_map) : Flattened(out.rule_map[i].expr)
    /\ pc = "merge" => Flattened(out.coalesce) /\ Flattened(out.optimize)


\* ---- C27 -------------------------------------------------------------------

\* the expression always yields its own input state (a Repeat with min = 0)
SureEmpty(e) == e.t = "Repeat" /\ e.min = 0

RECURSIVE Loops(_, _, _)
\* entering e re-enters, at the offset it was entered at, a rule that is still
\* running (onstack) or an unbounded Repeat whose body has matched nothing
Loops(rm, e, onstack) ==
    CASE e.t = "Symbol" ->
            \/ e.name \in onstack
            \/ Loops(rm, Lookup(rm, e.name), onstack \cup {e.name})
      [] e.t = "Alt" -> \E i \in 1..Len(e.exprs) : Loops(rm, e.exprs[i], onstack)
      [] e.t = "Cat" ->
            \E i \in 1..Len(e.exprs) :
                /\ Loops(rm, e.exprs[i], onstack)
                /\ \A k \in 1..(i - 1) : SureEmpty(e.exprs[k])
      [] e.t = "Repeat" ->
            /\ e.max # 0
            /\ \/ Loops(rm, e.expr, onstack)
               \/ e.max = None /\ SureEmpty(e.expr)
      [] e.t = "Diff" -> Loops(rm, e.base, onstack)
      [] OTHER -> FALSE

\* list(parser.parse(...)) was called on a grammar that loops from its start rule
LoopingParse ==
    /\ pc = "parse"
    /\ Loops(rule_map, Symbol(out.start), {})

\* C27, as stated: exhausting parse(text) on a grammar that loops without
\* consuming input never terminates, so the call has no outcome at all
C27_LoopingParseNeverEnds == ~LoopingParse

\* C27, amended: the engine detects no re-entry; exhausting parse(text) on a
\* grammar that loops without consuming input never completes normally: the
\* recursion deepens until the frame limit raises RecursionError out of parse
\* (or an earlier exception of the job ends the run), and it is never a
\* ParseError or an exhausted enumeration
C27_LoopingParseRaises ==
    LoopingParse => out.res.raised \in {"RecursionError", "TypeError", "NotImplementedError"}

C27_Witness ==
    /\ LoopingParse
    /\ out.res.raised = "RecursionError"
    /\ Lookup(rule_map, out.start).t = "Alt"


\* ---- C28 -------------------------------------------------------------------

RECURSIVE ClassEnd(_, _)
\* the index of the ] that closes the character class whose body starts at p[i]
ClassEnd(p, i) ==
    IF i > Len(p) THEN 0
    ELSE IF p[i] = re_ch.backslash THEN ClassEnd(p, i + 2)
    ELSE IF p[i] = re_ch.rbracket THEN i
    ELSE ClassEnd(p, i + 1)

RECURSIVE GroupEnd(_, _, _)
\* the index of the ) that closes the group entered depth parentheses ago
GroupEnd(p, i, depth) ==
    IF i > Len(p) THEN 0
    ELSE IF p[i] = re_ch.backslash THEN GroupEnd(p, i + 2, depth)
    ELSE IF p[i] = re_ch.lbracket
    THEN (IF ClassEnd(p, i + 1) = 0 THEN 0 ELSE GroupEnd(p, ClassEnd(p, i + 1) + 1, depth))
    ELSE IF p[i] = re_ch.lparen THEN GroupEnd(p, i + 1, depth + 1)
    ELSE IF p[i] = re_ch.rparen
    THEN (IF depth = 1 THEN i ELSE GroupEnd(p, i + 1, depth - 1))
    ELSE GroupEnd(p, i + 1, depth)

\* the pattern is one atom of the regex syntax, the unit a quantifier applies to:
\* one literal character, one escaped character, one class or one group
IsAtom(p) ==
    \/ Len(p) = 1 /\ p[1] \notin ReSpecial
    \/ Len(p) = 2 /\ p[1] = re_ch.backslash
    \/ Len(p) >= 2 /\ p[1] = re_ch.lbracket /\ ClassEnd(p, 2) = Len(p)
    \/ Len(p) >= 2 /\ p[1] = re_ch.lparen /\ GroupEnd(p, 2, 1) = Len(p)

RECURSIVE LastIndexOf(_, _, _)
LastIndexOf(p, c, i) ==
    IF i = 0 THEN 0 ELSE IF p[i] = c THEN i ELSE LastIndexOf(p, c, i - 1)

\* what is left of the pattern of a repetition once its quantifier is taken off
QuantifierOperand(p) ==
    IF p[Len(p)] = re_ch.rbrace
    THEN SubSeq(p, 1, LastIndexOf(p, re_ch.lbrace, Len(p)) - 1)
    ELSE SubSeq(p, 1, Len(p) - 1)

RECURSIVE TopLevelBars(_, _, _)
\* the indices of the | of the pattern that stand outside every group and class
TopLevelBars(p, i, depth) ==
    IF i > Len(p) THEN {}
    ELSE IF p[i] = re_ch.backslash THEN TopLevelBars(p, i + 2, depth)
    ELSE IF p[i] = re_ch.lbracket /\ ClassEnd(p, i + 1) # 0
    THEN TopLevelBars(p, ClassEnd(p, i + 1) + 1, depth)
    ELSE IF p[i] = re_ch.lparen THEN TopLevelBars(p, i + 1, depth + 1)
    ELSE IF p[i] = re_ch.rparen THEN TopLevelBars(p, i + 1, depth - 1)
    ELSE (IF p[i] = re_ch.bar /\ depth = 0 THEN {i} ELSE {}) \cup TopLevelBars(p, i + 1, depth)

\* to_python_re returned a pattern for an expression of the rule map
Rendered == pc = "regex" /\ out.res.ok

\* C28: the pattern groups as the tree does: the quantifier of a repetition
\* applies to the whole rendering of its operand (the operand is one atom of the
\* regex), and a concatenation has no alternation bar outside its groups
C28_RegexGroupsAsTree ==
    Rendered =>
        /\ out.expr.t = "Repeat" => IsAtom(QuantifierOperand(out.res.re))
        /\ out.expr.t = "Cat" => TopLevelBars(out.res.re, 1, 0) = {}


\* ---- C29 -------------------------------------------------------------------

\* seq starts with the elements of prefix
HasPrefix(seq, prefix) ==
    Len(seq) >= Len(prefix) /\ SubSeq(seq, 1, Len(prefix)) = prefix

\* C29: every state yielded by matching an expression from a state (o, R) with
\* o <= len(text) has an offset between o and len(text) and results that start
\* with R: the caller's results are extended, never replaced or changed
C29_YieldsExtendCallerState ==
    pc = "match" =>
        \A i \in 1..Len(out.trace) :
            out.trace[i].k = "Y" =>
                /\ out.st.offset <= out.trace[i].st.offset
                /\ out.trace[i].st.offset <= Len(text)
                /\ HasPrefix(out.trace[i].st.results, out.st.results)

\* a rule matched from a state with results: two solutions of different lengths
C29_Witness ==
    /\ pc = "match"
    /\ out.st.results # <<>>
    /\ out.expr.t = "Symbol"
    /\ \E i, k \in 1..Len(out.trace) :
          /\ out.trace[i].k = "Y" /\ out.trace[k].k = "Y"
          /\ out.trace[i].st.offset > out.trace[k].st.offset
          /\ out.trace[k].st.offset > out.st.offset
          /\ Len(out.trace[i].st.results) > Len(out.st.results)


\* ---- C30 -------------------------------------------------------------------

RECURSIVE CanMatchEmpty(_, _, _)
\* the expression can yield the state it was entered with (visiting: the rules
\* being expanded, a rule met again adds no new way to match nothing)
CanMatchEmpty(rm, e, visiting) ==
    CASE e.t = "String" -> e.value = <<>>
      [] e.t = "Symbol" ->
            /\ e.name \notin visiting
            /\ CanMatchEmpty(rm, Lookup(rm, e.name), visiting \cup {e.name})
      [] e.t = "Alt" -> \E i \in 1..Len(e.exprs) : CanMatchEmpty(rm, e.exprs[i], visiting)
      [] e.t = "Cat" -> \A i \in 1..Len(e.exprs) : CanMatchEmpty(rm, e.exprs[i], visiting)
      [] e.t = "Repeat" -> e.min = 0 \/ CanMatchEmpty(rm, e.expr, visiting)
      [] e.t = "Diff" -> CanMatchEmpty(rm, e.base, visiting)
      [] e.t = "Charset" -> FALSE
      [] OTHER -> TRUE

RECURSIVE EnteredAtStart(_, _)
\* the rule names an expression may call before it has consumed a character
EnteredAtStart(rm, e) ==
    CASE e.t = "Symbol" -> {e.name}
      [] e.t = "Alt" -> UNION {EnteredAtStart(rm, e.exprs[i]) : i \in 1..Len(e.exprs)}
      [] e.t = "Cat" ->
            UNION {EnteredAtStart(rm, e.exprs[i]) :
                      i \in {k \in 1..Len(e.exprs) :
                                \A m \in 1..(k - 1) : CanMatchEmpty(rm, e.exprs[m], {})}}
      [] e.t = "Repeat" -> IF e.max = 0 THEN {} ELSE EnteredAtStart(rm, e.expr)
      [] e.t = "Diff" -> EnteredAtStart(rm, e.base) \cup EnteredAtStart(rm, e.diff)
      [] OTHER -> {}

RECURSIVE ReachedAtStart(_, _, _)
\* the rules reached from the rules of names without consuming a character
ReachedAtStart(rm, names, n) ==
    IF n = 0 THEN names
    ELSE ReachedAtStart(rm, names \cup UNION {EnteredAtStart(rm, Lookup(rm, x)) : x \in names},
                        n - 1)

\* no rule reaches itself without consuming a character, and no unbounded Repeat
\* has a body that can match the empty string
WellFounded(rm) ==
    /\ \A i \in 1..Len(rm) :
          rm[i].name \notin ReachedAtStart(rm, EnteredAtStart(rm, rm[i].expr), Len(rm))
    /\ \A e \in RuleExprs(rm) :
          (e.t = "Repeat" /\ e.max = None) => ~CanMatchEmpty(rm, e.expr, {})

\* the largest number of a non-empty set of naturals
Largest(S) == CHOOSE x \in S : \A y \in S : y <= x

RECURSIVE FramesNeeded(_, _, _, _)
RECURSIVE CatFramesNeeded(_, _, _, _)
RECURSIVE RepeatFramesNeeded(_, _, _, _, _)
\* an upper bound of the frames that matching e puts on top of its caller's when
\* n characters of the text are left; visiting: the rules entered at this offset
FramesNeeded(rm, e, n, visiting) ==
    CASE e.t = "Symbol" ->
            IF e.name \in visiting THEN MaxDepth
            ELSE 1 + FramesNeeded(rm, Lookup(rm, e.name), n, visiting \cup {e.name})
      [] e.t = "Alt" ->
            1 + Largest({FramesNeeded(rm, e.exprs[i], n, visiting) : i \in 1..Len(e.exprs)})
      [] e.t = "Cat" -> CatFramesNeeded(rm, e.exprs, n, visiting)
      [] e.t = "Repeat" -> RepeatFramesNeeded(rm, e.expr, e.max, n, visiting)
      [] e.t = "Diff" ->
            1 + Largest({FramesNeeded(rm, e.base, n, visiting),
                         FramesNeeded(rm, e.diff, n, visiting)})
      [] OTHER -> 0

\* the head at one more frame, then the tail from where a solution of the head ends
CatFramesNeeded(rm, exprs, n, visiting) ==
    IF exprs = <<>> THEN 0
    ELSE 1 + Largest({FramesNeeded(rm, Head(exprs), n, visiting)}
                     \cup (IF CanMatchEmpty(rm, Head(exprs), {})
                           THEN {CatFramesNeeded(rm, Tail(exprs), n, visiting)} ELSE {})
                     \cup (IF n >= 1 THEN {CatFramesNeeded(rm, Tail(exprs), n - 1, {})}
                           ELSE {}))

\* the body at one more frame, then the next repetition from where it ended
RepeatFramesNeeded(rm, e, max, n, visiting) ==
    IF max = 0 THEN 0
    ELSE 1 + Largest({FramesNeeded(rm, e, n, visiting)}
                     \cup (IF CanMatchEmpty(rm, e, {})
                           THEN {IF max = None THEN MaxDepth
                                 ELSE RepeatFramesNeeded(rm, e, max - 1, n, visiting)}
                           ELSE {})
                     \cup (IF n >= 1 THEN {RepeatFramesNeeded(rm, e, Dec(max), n - 1, {})}
                           ELSE {}))

\* list(parser.parse(...)) on a grammar that cannot loop without consuming
\* input, from an offset where the frames it needs fit under the frame limit
WellFoundedParse ==
    /\ pc = "parse"
    /\ WellFounded(rule_map)
    /\ FramesNeeded(rule_map, Symbol(out.start), Len(text) - out.offset, {}) < MaxDepth

\* C30: on a grammar that cannot loop without consuming input, exhausting
\* parse(text), the diagnostic rerun included, ends by itself after finitely
\* many solutions: the depth of the recursion is bounded by the grammar and the
\* characters left, so the call never ends in the RecursionError of a runaway
\* recursion
C30_WellFoundedParseEnds ==
    WellFoundedParse => out.res.raised # "RecursionError"

\* a rule that calls itself after consuming a character, no solution, and the
\* diagnostic rerun ran to its end
C30_Witness ==
    /\ WellFoundedParse
    /\ out.start \in {x.name : x \in RuleExprs(<<Rule(out.start, Lookup(rule_map, out.start))>>)
                                    \ {y \in RuleExprs(rule_map) : y.t # "Symbol"}}
    /\ Len(text) - out.offset >= 2
    /\ out.debug
    /\ out.res.raised = "ExceptionGroup"

====
